---- MODULE Spec2Model ----
(***************************************************************************)
(* Model of the in-memory auction engine of shopng-ecommerce               *)
(* (src/app/services/auction.service.ts) and of its callers, of the        *)
(* orders: the in-memory OrderService (src/app/services/order.service.ts)  *)
(* and the order routes of the Express API (backend/server.js), and of the *)
(* ProductService, the ReviewService, the AuthService and the              *)
(* NotificationService of the Angular application.                         *)
(*                                                                         *)
(* Money is counted in mills (1/1000 of a currency unit) so that round2,   *)
(* which rounds to 2 decimals, is not the identity.  Time is counted in    *)
(* hours relative to the construction of the service (now = 0): the seed   *)
(* data is built with Date.setHours, whose granularity is the hour.        *)
(***************************************************************************)
EXTENDS Integers, Sequences, FiniteSets, TLC

VARIABLES
    auctions,       \* AuctionService.auctions : array of Auction
    bids,           \* AuctionService.bids     : array of Bid (the ledger)
    nextAuctionId,  \* AuctionService.nextAuctionId
    nextBidId,      \* AuctionService.nextBidId
    now,            \* the wall clock read by `new Date()`
    calls,          \* number of calls so far that changed auctions or bids
                    \* otherwise than by the expiry sweep
    ret,            \* the Observable returned by the last call
    orders,         \* OrderService.orders : array of Order
    productsTable,  \* table products : id -> stock
    ordersTable,    \* table orders : the committed rows, in insertion order
    orderItemsTable,\* table order_items : the committed rows
    ordersIdSeq,    \* the sequence behind orders.id (SERIAL)
    clock,          \* CURRENT_TIMESTAMP of the database
    handlers,       \* the POST /api/orders handlers in flight
    tx,             \* the uncommitted writes and row locks of each connection
    pool,           \* the clients of the pool that are checked out
    res,            \* the response to the last request
    products,       \* ProductService.products : array of Product
    nextProductId,  \* ProductService.nextId
    reviews,        \* ReviewService.reviews : array of Review
    nextReviewId,   \* ReviewService.nextId
    token,          \* localStorage 'token'
    currentUser,    \* AuthService.currentUserSignal
    authRequests,   \* the HTTP requests of the AuthService in flight
    usersTable,     \* table users : the rows, in insertion order
    tokensIssued,   \* number of tokens signed so far
    notifications,  \* NotificationService.notifications
    nextNotificationId, \* NotificationService.nextId
    timers          \* ids whose setTimeout callback is pending

vars == <<auctions, bids, nextAuctionId, nextBidId, now, calls, ret>>

\* the state of the order routes and of the OrderService
orderVars == <<orders, productsTable, ordersTable, orderItemsTable,
               ordersIdSeq, clock, handlers, tx, pool, res>>

\* the state of the ProductService
catalogVars == <<products, nextProductId>>

\* the state of the ReviewService
reviewVars == <<reviews, nextReviewId>>

\* the state of the AuthService and of the auth routes
authVars == <<token, currentUser, authRequests, usersTable, tokensIssued>>

\* the state of the NotificationService
notificationVars == <<notifications, nextNotificationId, timers>>

\* the state of the services that are neither the auctions nor the orders
otherVars == <<catalogVars, reviewVars, authVars, notificationVars>>

\* what a call of the AuctionService leaves alone
nonAuctionVars == <<orderVars, otherVars>>

allVars == <<vars, orderVars, otherVars>>

----------------------------------------------------------------------------
(* Bounds of the model                                                     *)

MaxTime == 5            \* the clock runs from 0 to MaxTime hours
MaxCalls == 2           \* createAuction, accepted placeBid, cancelAuction and
                        \* updateAuctionStatus calls that change the state
MaxOrders == 2          \* INSERTs into orders, committed or rolled back
MaxCreated == 1         \* products created by createProduct
MaxReviews == 1         \* reviews submitted by submitReview
MaxHelpful == 1         \* markHelpful calls on one review
MaxInFlight == 2        \* requests of the AuthService in flight at once
MaxTokens == 2          \* tokens signed by the auth routes
MaxRegistered == 1      \* users inserted by POST /api/auth/register
MaxShown == 6           \* notifications shown

----------------------------------------------------------------------------
(* Constants of the program                                                *)

MinIncrement == 1000    \* `auction.currentPrice + 1`, one unit, in mills
FirstNewAuctionId == 7
FirstNewBidId == 18
None == 0               \* an absent winnerId
NoName == ""            \* an absent winnerName

Statuses == {"active", "ended", "sold", "cancelled"}

\* The users of the seed data: Jane S., Mark J., Sarah W., Demo U.
Users == {100, 101, 102, 998}

UserName(u) ==
    CASE u = 100 -> "Jane S."
      [] u = 101 -> "Mark J."
      [] u = 102 -> "Sarah W."
      [] u = 998 -> "Demo U."
      [] OTHER   -> "?"

\* Math.round(n * 100) / 100 : half-way cases round up (towards +infinity)
round2(n) == ((n + 5) \div 10) * 10

\* Date.setHours(getHours() + hours) truncates its argument towards zero.
\* h10 is the offset in tenths of an hour, hod the local hour of the day;
\* the result is the offset in whole hours.
hoursFromNow(h10, hod) ==
    LET t == hod * 10 + h10
        trunc == IF t >= 0 THEN t \div 10 ELSE -((-t) \div 10)
    IN  trunc - hod

daysFromNow(d10, hod) == hoursFromNow(d10 * 24, hod)

daysAgo(d10, hod) == hoursFromNow(-(d10 * 24), hod)

----------------------------------------------------------------------------
(* Seed data                                                               *)

Auction(id, sellerId, title, description, category, startingPrice, currentPrice, bidCount, status, createdAt, endsAt, winnerId) ==
    [id |-> id, sellerId |-> sellerId, sellerName |-> UserName(sellerId),
     title |-> title, description |-> description, category |-> category,
     startingPrice |-> startingPrice, currentPrice |-> currentPrice,
     bidCount |-> bidCount, status |-> status,
     createdAt |-> createdAt, endsAt |-> endsAt,
     winnerId |-> winnerId,
     winnerName |-> IF winnerId = None THEN NoName ELSE UserName(winnerId)]

Bid(id, auctionId, bidderId, bidderName, amount, createdAt) ==
    [id |-> id, auctionId |-> auctionId, bidderId |-> bidderId,
     bidderName |-> bidderName, amount |-> amount, createdAt |-> createdAt]

SEED_AUCTIONS(hod) == <<
    Auction(1, 100, "Vintage Mechanical Keyboard", "Cherry MX Blue",
            "Electronics", 45000, 78000, 4, "active",
            daysAgo(30, hod), daysFromNow(20, hod), None),
    Auction(2, 998, "Limited Edition Sneakers", "Size 10",
            "Clothing", 120000, 185000, 3, "active",
            daysAgo(20, hod), hoursFromNow(50, hod), None),
    Auction(3, 101, "First Edition Novel Collection", "5 first edition novels",
            "Books", 60000, 95000, 3, "active",
            daysAgo(40, hod), daysFromNow(10, hod), None),
    Auction(4, 102, "Handmade Ceramic Vase Set", "Set of 3 vases",
            "Home", 35000, 52000, 2, "active",
            daysAgo(10, hod), daysFromNow(30, hod), None),
    Auction(5, 998, "Retro Gaming Console Bundle", "16-bit console",
            "Electronics", 80000, 145000, 5, "sold",
            daysAgo(100, hod), daysAgo(10, hod), 101),
    Auction(6, 100, "Designer Sunglasses", "Polarized lenses",
            "Clothing", 55000, 55000, 0, "cancelled",
            daysAgo(70, hod), daysAgo(20, hod), None) >>

SEED_BIDS(hod) == <<
    Bid(1,  1, 998, "Demo U.",  50000,  daysAgo(25, hod)),
    Bid(2,  1, 101, "Mark J.",  58000,  daysAgo(20, hod)),
    Bid(3,  1, 102, "Sarah W.", 65000,  daysAgo(15, hod)),
    Bid(4,  1, 998, "Demo U.",  78000,  daysAgo(10, hod)),
    Bid(5,  2, 100, "Jane S.",  135000, daysAgo(15, hod)),
    Bid(6,  2, 101, "Mark J.",  155000, daysAgo(10, hod)),
    Bid(7,  2, 100, "Jane S.",  185000, daysAgo(5, hod)),
    Bid(8,  3, 998, "Demo U.",  70000,  daysAgo(30, hod)),
    Bid(9,  3, 102, "Sarah W.", 82000,  daysAgo(20, hod)),
    Bid(10, 3, 998, "Demo U.",  95000,  daysAgo(10, hod)),
    Bid(11, 4, 998, "Demo U.",  42000,  daysAgo(8, hod)),
    Bid(12, 4, 100, "Jane S.",  52000,  daysAgo(3, hod)),
    Bid(13, 5, 100, "Jane S.",  90000,  daysAgo(80, hod)),
    Bid(14, 5, 101, "Mark J.",  105000, daysAgo(60, hod)),
    Bid(15, 5, 102, "Sarah W.", 120000, daysAgo(40, hod)),
    Bid(16, 5, 100, "Jane S.",  132000, daysAgo(30, hod)),
    Bid(17, 5, 101, "Mark J.",  145000, daysAgo(20, hod)) >>

----------------------------------------------------------------------------
(* Helpers over arrays                                                     *)

Range(s) == {s[i] : i \in 1..Len(s)}

\* Array.prototype.sort with a numeric comparator: ascending in the key the
\* comparator subtracts, stable (elements with equal keys keep their relative
\* order).  keys[i] is the key of s[i].
RECURSIVE InsertByKey(_, _, _, _)
InsertByKey(sorted, keys, x, k) ==
    IF sorted = <<>> \/ keys[Len(keys)] <= k
    THEN <<Append(sorted, x), Append(keys, k)>>
    ELSE LET rest == InsertByKey(SubSeq(sorted, 1, Len(sorted) - 1),
                                 SubSeq(keys, 1, Len(keys) - 1), x, k)
         IN  <<Append(rest[1], sorted[Len(sorted)]),
               Append(rest[2], keys[Len(keys)])>>

RECURSIVE SortKeyed(_, _)
SortKeyed(s, keys) ==
    IF s = <<>> THEN <<<<>>, <<>>>>
    ELSE LET n == Len(s)
             front == SortKeyed(SubSeq(s, 1, n - 1), SubSeq(keys, 1, n - 1))
         IN  InsertByKey(front[1], front[2], s[n], keys[n])

SortBy(s, keys) == SortKeyed(s, keys)[1]

\* Array.prototype.find(a => a.id === id): index of the first match, 0 if none
FindIndex(arr, id) ==
    IF \E i \in 1..Len(arr) : arr[i].id = id
    THEN CHOOSE i \in 1..Len(arr) :
            /\ arr[i].id = id
            /\ \A j \in 1..(i - 1) : arr[j].id # id
    ELSE 0

\* this.bids.filter(b => b.auctionId === id)
BidsOf(ledger, id) == LET T(b) == b.auctionId = id IN SelectSeq(ledger, T)

----------------------------------------------------------------------------
(* The value handed back by a call: of(value) or throwError(error)         *)

\* `op` and `args` name the call, `value` is the array or the one object held
\* by of(...), `error` the message held by throwError(...).
Of(op, args, value) ==
    [op |-> op, args |-> args, ok |-> TRUE, error |-> "", value |-> value]

ThrowError(op, args, error) ==
    [op |-> op, args |-> args, ok |-> FALSE, error |-> error, value |-> <<>>]

NoCall == Of("none", <<>>, <<>>)

----------------------------------------------------------------------------
(* Auto-expiration                                                         *)

\* this.bids.filter(b => b.auctionId === auction.id)
\*          .sort((a, b) => b.amount - a.amount)[0]
TopBid(ledger, id) ==
    LET auctionBids == BidsOf(ledger, id)
    IN  Head(SortBy(auctionBids,
                    [k \in 1..Len(auctionBids) |-> -auctionBids[k].amount]))

\* EndAuction with `<` for `<=`: an auction is left active at its deadline
EndAuctionAfterDeadline(auction, ledger, t) ==
    IF auction.status = "active" /\ auction.endsAt < t
    THEN IF auction.bidCount > 0
         THEN [auction EXCEPT !.status = "sold",
                              !.winnerId = TopBid(ledger, auction.id).bidderId,
                              !.winnerName = TopBid(ledger, auction.id).bidderName]
         ELSE [auction EXCEPT !.status = "ended"]
    ELSE auction

\* the body of the forEach of checkAndEndAuctions, for one auction
EndAuction(auction, ledger, t) ==
    IF auction.status = "active" /\ auction.endsAt <= t
    THEN IF auction.bidCount > 0
         THEN [auction EXCEPT !.status = "sold",
                              !.winnerId = TopBid(ledger, auction.id).bidderId,
                              !.winnerName = TopBid(ledger, auction.id).bidderName]
         ELSE [auction EXCEPT !.status = "ended"]
    ELSE auction

checkAndEndAuctions(arr, ledger, t) ==
    [i \in 1..Len(arr) |-> EndAuction(arr[i], ledger, t)]

----------------------------------------------------------------------------
(* Time                                                                    *)

\* No call is pending: calls are synchronous and run to completion, and the
\* caller's subscribe callback consumes the returned value at once.
Idle == ret.op = "none"

Tick(t) ==
    /\ t > now
    /\ now' = t
    /\ UNCHANGED <<auctions, bids, nextAuctionId, nextBidId, calls, ret>>

\* subscribe({next, error}): the caller takes the value of the Observable
Subscribe ==
    /\ ~Idle
    /\ ret' = NoCall
    /\ UNCHANGED <<auctions, bids, nextAuctionId, nextBidId, now, calls>>
    /\ UNCHANGED nonAuctionVars

----------------------------------------------------------------------------
(* Create                                                                  *)

\* createAuction that rounds startingPrice but not currentPrice
createAuctionUnrounded(sellerId, title, description, category, startingPrice, endsAt) ==
    LET auction == Auction(nextAuctionId, sellerId, title, description,
                           category, round2(startingPrice),
                           startingPrice, 0, "active",
                           now, endsAt, None)
    IN  /\ calls < MaxCalls
        /\ calls' = calls + 1
        /\ nextAuctionId' = nextAuctionId + 1
        /\ auctions' = Append(auctions, auction)
        /\ ret' = Of("createAuction", <<sellerId, startingPrice, endsAt>>,
                      <<auction>>)
        /\ UNCHANGED <<bids, nextBidId, now>>

createAuction(sellerId, title, description, category, startingPrice, endsAt) ==
    LET auction == Auction(nextAuctionId, sellerId, title, description,
                           category, round2(startingPrice),
                           round2(startingPrice), 0, "active",
                           now, endsAt, None)
    IN  /\ calls < MaxCalls
        /\ calls' = calls + 1
        /\ nextAuctionId' = nextAuctionId + 1
        /\ auctions' = Append(auctions, auction)
        /\ ret' = Of("createAuction", <<sellerId, startingPrice, endsAt>>,
                      <<auction>>)
        /\ UNCHANGED <<bids, nextBidId, now>>

\* MinBid without the increment: a bid equal to currentPrice passes
MinBidNoIncrement(auction) == round2(auction.currentPrice)

\* MinBid from the price the auction started at, not from its current price
MinBidFromStart(auction) == round2(auction.startingPrice + MinIncrement)

\* const minBid = round2(auction.currentPrice + 1)
MinBid(auction) == round2(auction.currentPrice + MinIncrement)

\* IsOwnAuction comparing the wrong field
IsOwnAuctionById(auction, bidderId) == auction.id = bidderId

\* auction.sellerId === bidderId
IsOwnAuction(auction, bidderId) == auction.sellerId = bidderId

\* PushBid that keeps one bid per bidder and auction: a new bid replaces the
\* bidder's earlier bid on that auction
PushBidReplacing(ledger, bid) ==
    LET Other(b) == ~(b.auctionId = bid.auctionId /\ b.bidderId = bid.bidderId)
    IN  Append(SelectSeq(ledger, Other), bid)

\* this.bids.push(bid)
PushBid(ledger, bid) == Append(ledger, bid)

\* WithBid that forgets bidCount++
WithBidNoCount(arr, i, bid) == [arr EXCEPT ![i].currentPrice = bid.amount]

\* WithBid that forgets to move currentPrice
WithBidNoPrice(arr, i, bid) == [arr EXCEPT ![i].bidCount = @ + 1]

\* auction.currentPrice = bid.amount; auction.bidCount++
WithBid(arr, i, bid) ==
    [arr EXCEPT ![i].currentPrice = bid.amount, ![i].bidCount = @ + 1]

\* placeBid that runs no expiry sweep and looks at the status alone, not at
\* the deadline
placeBidStatusOnly(auctionId, bidderId, bidderName, amount) ==
    LET i == FindIndex(auctions, auctionId)
        auction == auctions[i]
        args == <<auctionId, bidderId, amount>>
        bid == Bid(nextBidId, auctionId, bidderId, bidderName,
                   round2(amount), now)
        Fail(error) ==
            /\ ret' = ThrowError("placeBid", args, error)
            /\ UNCHANGED <<auctions, bids, nextBidId, calls>>
    IN  /\ UNCHANGED <<nextAuctionId, now>>
        /\ IF i = 0
             THEN Fail("Auction not found")
           ELSE IF auction.status # "active"
             THEN Fail("This auction is no longer active")
           ELSE IF IsOwnAuction(auction, bidderId)
             THEN Fail("You cannot bid on your own auction")
           ELSE IF amount < MinBid(auction)
             THEN Fail("Bid must be at least minBid")
           ELSE /\ calls < MaxCalls
                /\ calls' = calls + 1
                /\ nextBidId' = nextBidId + 1
                /\ bids' = PushBid(bids, bid)
                /\ auctions' = WithBid(auctions, i, bid)
                /\ ret' = Of("placeBid", args, <<bid>>)

\* placeBid that pushes the bid and updates the auction before it validates
\* the amount
placeBidPushFirst(auctionId, bidderId, bidderName, amount) ==
    LET swept == checkAndEndAuctions(auctions, bids, now)
        i == FindIndex(swept, auctionId)
        auction == swept[i]
        args == <<auctionId, bidderId, amount>>
        bid == Bid(nextBidId, auctionId, bidderId, bidderName,
                   round2(amount), now)
        Fail(error) ==
            /\ auctions' = swept
            /\ ret' = ThrowError("placeBid", args, error)
            /\ UNCHANGED <<bids, nextBidId, calls>>
    IN  /\ UNCHANGED <<nextAuctionId, now>>
        /\ IF i = 0
             THEN Fail("Auction not found")
           ELSE IF auction.status # "active"
             THEN Fail("This auction is no longer active")
           ELSE IF auction.endsAt <= now
             THEN Fail("This auction has ended")
           ELSE IF IsOwnAuction(auction, bidderId)
             THEN Fail("You cannot bid on your own auction")
           ELSE /\ calls < MaxCalls
                /\ calls' = calls + 1
                /\ nextBidId' = nextBidId + 1
                /\ bids' = PushBid(bids, bid)
                /\ auctions' = WithBid(swept, i, bid)
                /\ ret' = IF amount < MinBid(auction)
                          THEN ThrowError("placeBid", args,
                                          "Bid must be at least minBid")
                          ELSE Of("placeBid", args, <<bid>>)

placeBid(auctionId, bidderId, bidderName, amount) ==
    LET swept == checkAndEndAuctions(auctions, bids, now)
        i == FindIndex(swept, auctionId)
        auction == swept[i]
        args == <<auctionId, bidderId, amount>>
        bid == Bid(nextBidId, auctionId, bidderId, bidderName,
                   round2(amount), now)
        Fail(error) ==
            /\ auctions' = swept
            /\ ret' = ThrowError("placeBid", args, error)
            /\ UNCHANGED <<bids, nextBidId, calls>>
    IN  /\ UNCHANGED <<nextAuctionId, now>>
        /\ IF i = 0
             THEN Fail("Auction not found")
           ELSE IF auction.status # "active"
             THEN Fail("This auction is no longer active")
           ELSE IF auction.endsAt <= now
             THEN Fail("This auction has ended")
           ELSE IF IsOwnAuction(auction, bidderId)
             THEN Fail("You cannot bid on your own auction")
           ELSE IF amount < MinBid(auction)
             THEN Fail("Bid must be at least minBid")
           ELSE /\ calls < MaxCalls
                /\ calls' = calls + 1
                /\ nextBidId' = nextBidId + 1
                /\ bids' = PushBid(bids, bid)
                /\ auctions' = WithBid(swept, i, bid)
                /\ ret' = Of("placeBid", args, <<bid>>)

----------------------------------------------------------------------------
(* Update                                                                  *)

\* cancelAuction without the check of the requester
cancelAuctionAnyone(auctionId, sellerId) ==
    LET i == FindIndex(auctions, auctionId)
        auction == auctions[i]
        Fail(error) ==
            /\ ret' = ThrowError("cancelAuction", <<auctionId, sellerId>>, error)
            /\ UNCHANGED <<auctions, calls>>
    IN  /\ UNCHANGED <<bids, nextAuctionId, nextBidId, now>>
        /\ IF i = 0
             THEN Fail("Auction not found")
           ELSE IF auction.status # "active"
             THEN Fail("Only active auctions can be cancelled")
           ELSE /\ calls < MaxCalls
                /\ calls' = calls + 1
                /\ auctions' = [auctions EXCEPT ![i].status = "cancelled"]
                /\ ret' = Of("cancelAuction", <<auctionId, sellerId>>,
                              <<auctions'[i]>>)

cancelAuction(auctionId, sellerId) ==
    LET i == FindIndex(auctions, auctionId)
        auction == auctions[i]
        Fail(error) ==
            /\ ret' = ThrowError("cancelAuction", <<auctionId, sellerId>>, error)
            /\ UNCHANGED <<auctions, calls>>
    IN  /\ UNCHANGED <<bids, nextAuctionId, nextBidId, now>>
        /\ IF i = 0
             THEN Fail("Auction not found")
           ELSE IF auction.sellerId # sellerId
             THEN Fail("You can only cancel your own auctions")
           ELSE IF auction.status # "active"
             THEN Fail("Only active auctions can be cancelled")
           ELSE /\ calls < MaxCalls
                /\ calls' = calls + 1
                /\ auctions' = [auctions EXCEPT ![i].status = "cancelled"]
                /\ ret' = Of("cancelAuction", <<auctionId, sellerId>>,
                              <<auctions'[i]>>)

updateAuctionStatus(id, status) ==
    LET i == FindIndex(auctions, id)
    IN  /\ UNCHANGED <<bids, nextAuctionId, nextBidId, now>>
        /\ IF i = 0
             THEN /\ ret' = ThrowError("updateAuctionStatus", <<id, status>>,
                                      "Auction not found")
                  /\ UNCHANGED <<auctions, calls>>
             ELSE /\ calls < MaxCalls
                  /\ calls' = IF auctions[i].status = status
                              THEN calls ELSE calls + 1
                  /\ auctions' = [auctions EXCEPT ![i].status = status]
                  /\ ret' = Of("updateAuctionStatus", <<id, status>>,
                                <<auctions'[i]>>)

----------------------------------------------------------------------------
(* Read: every read but getBidsByAuction starts with the expiry sweep      *)

\* String.prototype.toLowerCase, on the strings the searches compare
toLowerCase(s) ==
    CASE s = "Electronics" -> "electronics"
      [] s = "Clothing"    -> "clothing"
      [] s = "Books"       -> "books"
      [] s = "Home"        -> "home"
      [] s = "Jane S."     -> "jane s."
      [] s = "Mark J."     -> "mark j."
      [] s = "Sarah W."    -> "sarah w."
      [] s = "Demo U."     -> "demo u."
      [] s = "Smart Watch Pro"   -> "smart watch pro"
      [] s = "Master JavaScript" -> "master javascript"
      [] s = "New@shopng.com"    -> "new@shopng.com"
      [] OTHER             -> s

\* String.prototype.includes, for terms that are empty or a whole field
includes(text, term) == term = "" \/ text = term

\* the auctions once this.checkAndEndAuctions() has run
Swept == checkAndEndAuctions(auctions, bids, now)

Read(result) ==
    /\ auctions' = Swept
    /\ ret' = result
    /\ UNCHANGED <<bids, nextAuctionId, nextBidId, now, calls>>

getActiveAuctions ==
    LET Active(a) == a.status = "active"
        active == SelectSeq(Swept, Active)
    IN  Read(Of("getActiveAuctions", <<>>,
                SortBy(active, [k \in 1..Len(active) |-> active[k].endsAt])))

\* .sort((a, b) => new Date(b.createdAt).getTime() - new Date(a.createdAt).getTime())
NewestFirst(arr) == SortBy(arr, [k \in 1..Len(arr) |-> -arr[k].createdAt])

getAllAuctions == Read(Of("getAllAuctions", <<>>, NewestFirst(Swept)))

getAuctionById(id) ==
    Read(IF FindIndex(Swept, id) = 0
         THEN ThrowError("getAuctionById", <<id>>, "Auction not found")
         ELSE Of("getAuctionById", <<id>>, <<Swept[FindIndex(Swept, id)]>>))

getAuctionsBySeller(sellerId) ==
    LET Mine(a) == a.sellerId = sellerId
    IN  Read(Of("getAuctionsBySeller", <<sellerId>>,
                NewestFirst(SelectSeq(Swept, Mine))))

getAuctionsByBidder(bidderId) ==
    LET bidAuctionIds == {b.auctionId : b \in {c \in Range(bids) : c.bidderId = bidderId}}
        BidOn(a) == a.id \in bidAuctionIds
    IN  Read(Of("getAuctionsByBidder", <<bidderId>>,
                NewestFirst(SelectSeq(Swept, BidOn))))

searchAuctions(term) ==
    LET lower == toLowerCase(term)
        Match(a) == \/ includes(toLowerCase(a.title), lower)
                    \/ includes(toLowerCase(a.description), lower)
                    \/ includes(toLowerCase(a.sellerName), lower)
                    \/ includes(toLowerCase(a.category), lower)
    IN  Read(Of("searchAuctions", <<term>>, SelectSeq(Swept, Match)))

getBidsByAuction(auctionId) ==
    LET auctionBids == BidsOf(bids, auctionId)
    IN  /\ ret' = Of("getBidsByAuction", <<auctionId>>,
                      SortBy(auctionBids,
                             [k \in 1..Len(auctionBids) |-> -auctionBids[k].createdAt]))
        /\ UNCHANGED <<auctions, bids, nextAuctionId, nextBidId, now, calls>>

----------------------------------------------------------------------------
(* The product catalogue: the in-memory ProductService                     *)
(* (src/app/services/product.service.ts).  Prices are in mills, ratings in *)
(* tenths.                                                                 *)

FirstNewProductId == 13 \* ProductService.nextId

DefaultImage == "seed/new-product"

Product(id, name, description, price, image, category, rating, stock) ==
    [id |-> id, name |-> name, description |-> description, price |-> price,
     image |-> image, category |-> category, rating |-> rating,
     stock |-> stock]

FAKE_PRODUCTS == <<
    Product(1, "Wireless Bluetooth Headphones", "Premium over-ear headphones",
            79990, "seed/headphones", "Electronics", 45, 15),
    Product(2, "Smart Watch Pro", "Feature-packed smartwatch",
            199990, "seed/smartwatch", "Electronics", 42, 8),
    Product(3, "Portable Bluetooth Speaker", "Compact and powerful wireless speaker",
            49990, "seed/speaker", "Electronics", 40, 22),
    Product(4, "Classic Denim Jacket", "Timeless denim jacket",
            89990, "seed/denim-jacket", "Clothing", 47, 12),
    Product(5, "Running Sneakers Ultra", "Lightweight performance running shoes",
            129990, "seed/sneakers", "Clothing", 46, 18),
    Product(6, "Wool Blend Overcoat", "Elegant wool blend overcoat",
            159990, "seed/overcoat", "Clothing", 43, 5),
    Product(7, "The Art of Clean Code", "A comprehensive guide",
            34990, "seed/coding-book", "Books", 48, 30),
    Product(8, "Modern JavaScript Deep Dive", "Master JavaScript",
            44990, "seed/js-book", "Books", 49, 25),
    Product(9, "Design Patterns Handbook", "Learn the 23 classic design patterns",
            39990, "seed/patterns-book", "Books", 44, 20),
    Product(10, "Ceramic Plant Pot Set", "Set of 3 minimalist ceramic pots",
            29990, "seed/plant-pots", "Home", 41, 35),
    Product(11, "LED Desk Lamp", "Adjustable LED desk lamp",
            54990, "seed/desk-lamp", "Home", 43, 14),
    Product(12, "Scented Candle Collection", "Luxury soy wax candle set",
            24990, "seed/candles", "Home", 46, 40) >>

\* this.products.filter(p => !p.disabled)
Enabled(arr) == LET Shown(p) == ~p.disabled IN SelectSeq(arr, Shown)

\* Array.prototype.slice(from, to), 0-based, `to` exclusive
Slice(arr, from, to) ==
    SubSeq(arr, from + 1, IF to < Len(arr) THEN to ELSE Len(arr))

\* Math.ceil(a / b) for a >= 0 and b > 0
Ceil(a, b) == (a + b - 1) \div b

\* [...new Set(arr)]: the distinct elements, each at its first occurrence
RECURSIVE Distinct(_)
Distinct(arr) ==
    IF arr = <<>> THEN <<>>
    ELSE LET front == Distinct(SubSeq(arr, 1, Len(arr) - 1))
             x == arr[Len(arr)]
         IN  IF x \in Range(front) THEN front ELSE Append(front, x)

\* the place of a category name in the order of Array.prototype.sort()
\* (by UTF-16 code units)
CategoryRank(c) ==
    CASE c = "Books"         -> 1
      [] c = "Clothing"      -> 2
      [] c = "Electronics"   -> 3
      [] c = "Home"          -> 4
      [] c = "Uncategorized" -> 5
      [] OTHER               -> 6

\* a call of the ProductService: it changes nothing outside the service
ProductServiceCall ==
    UNCHANGED <<auctions, bids, nextAuctionId, nextBidId, now, calls,
                orderVars, reviewVars, authVars, notificationVars>>

ProductRead(result) ==
    /\ ret' = result
    /\ UNCHANGED <<products, nextProductId>>
    /\ ProductServiceCall

\* params.category, params.search, params.page and params.limit are absent
\* when they are "" or 0, the values that `if (...)` and `||` take as false
getProducts(params) ==
    LET InCategory(p) == toLowerCase(p.category) = toLowerCase(params.category)
        term == toLowerCase(params.search)
        Match(p) == \/ includes(toLowerCase(p.name), term)
                    \/ includes(toLowerCase(p.description), term)
        shown == Enabled(products)
        byCategory == IF params.category # ""
                      THEN SelectSeq(shown, InCategory) ELSE shown
        result == IF params.search # ""
                  THEN SelectSeq(byCategory, Match) ELSE byCategory
        total == Len(result)
        page == IF params.page # 0 THEN params.page ELSE 1
        limit == IF params.limit # 0 THEN params.limit ELSE 50
        offset == (page - 1) * limit
    IN  ProductRead(Of("getProducts", <<params>>,
                       <<[products |-> Slice(result, offset, offset + limit),
                          total |-> total, page |-> page,
                          totalPages |-> Ceil(total, limit)]>>))

getAllProducts == ProductRead(Of("getAllProducts", <<>>, Enabled(products)))

\* this.products.find(p => p.id === id)
getProductById(id) ==
    LET index == FindIndex(products, id)
    IN  ProductRead(IF index = 0
                    THEN ThrowError("getProductById", <<id>>, "Product not found")
                    ELSE Of("getProductById", <<id>>, <<products[index]>>))

getProductsByCategory(category) ==
    LET Match(p) == /\ ~p.disabled
                    /\ toLowerCase(p.category) = toLowerCase(category)
    IN  ProductRead(Of("getProductsByCategory", <<category>>,
                       SelectSeq(products, Match)))

searchProducts(term) ==
    LET lower == toLowerCase(term)
        Match(p) == /\ ~p.disabled
                    /\ \/ includes(toLowerCase(p.name), lower)
                       \/ includes(toLowerCase(p.description), lower)
    IN  ProductRead(Of("searchProducts", <<term>>, SelectSeq(products, Match)))

getCategories ==
    LET shown == Enabled(products)
        cats == Distinct([k \in 1..Len(shown) |-> shown[k].category])
    IN  ProductRead(Of("getCategories", <<>>,
                       SortBy(cats, [k \in 1..Len(cats) |-> CategoryRank(cats[k])])))

\* .sort((a, b) => b.rating - a.rating).slice(0, 4)
getFeaturedProducts ==
    LET shown == Enabled(products)
        byRating == SortBy(shown, [k \in 1..Len(shown) |-> -shown[k].rating])
    IN  ProductRead(Of("getFeaturedProducts", <<>>, Slice(byRating, 0, 4)))

getAllProductsAdmin == ProductRead(Of("getAllProductsAdmin", <<>>, products))

\* product.name || '', product.price || 0, ...: `product` holds the fields
\* the caller has set; "", 0 and false give way to the default
createProduct(product) ==
    LET Text(f, default) ==
            IF f \in DOMAIN product /\ product[f] # "" THEN product[f] ELSE default
        Number(f) ==
            IF f \in DOMAIN product THEN product[f] ELSE 0
        Flag(f) ==
            IF f \in DOMAIN product THEN product[f] ELSE FALSE
        newProduct ==
            Product(nextProductId, Text("name", ""), Text("description", ""),
                    Number("price"), Text("image", DefaultImage),
                    Text("category", "Uncategorized"), Number("rating"),
                    Number("stock"))
            @@ [disabled |-> Flag("disabled")]
    IN  /\ nextProductId < FirstNewProductId + MaxCreated
        /\ nextProductId' = nextProductId + 1
        /\ products' = Append(products, newProduct)
        /\ ret' = Of("createProduct", <<product>>, <<newProduct>>)
        /\ ProductServiceCall

\* this.products[index] = { ...this.products[index], ...updates }
updateProduct(id, updates) ==
    LET index == FindIndex(products, id)
    IN  /\ IF index = 0
             THEN /\ ret' = ThrowError("updateProduct", <<id, updates>>,
                                      "Product not found")
                  /\ UNCHANGED products
             ELSE /\ products' = [products EXCEPT ![index] = updates @@ @]
                  /\ ret' = Of("updateProduct", <<id, updates>>,
                                <<products'[index]>>)
        /\ UNCHANGED nextProductId
        /\ ProductServiceCall

\* this.products.splice(index, 1)
deleteProduct(id) ==
    LET index == FindIndex(products, id)
    IN  /\ IF index = 0
             THEN /\ ret' = ThrowError("deleteProduct", <<id>>,
                                      "Product not found")
                  /\ UNCHANGED products
             ELSE /\ products' = SubSeq(products, 1, index - 1)
                                 \o SubSeq(products, index + 1, Len(products))
                  /\ ret' = Of("deleteProduct", <<id>>,
                                <<[message |-> "Product deleted successfully."]>>)
        /\ UNCHANGED nextProductId
        /\ ProductServiceCall

toggleDisabled(id) ==
    LET index == FindIndex(products, id)
    IN  /\ IF index = 0
             THEN /\ ret' = ThrowError("toggleDisabled", <<id>>,
                                      "Product not found")
                  /\ UNCHANGED products
             ELSE /\ products' = [products EXCEPT ![index].disabled = ~@]
                  /\ ret' = Of("toggleDisabled", <<id>>, <<products'[index]>>)
        /\ UNCHANGED nextProductId
        /\ ProductServiceCall

----------------------------------------------------------------------------
(* Orders, client side: the in-memory OrderService                         *)
(* (src/app/services/order.service.ts).  Money is in mills, as above.      *)

TAX_RATE == 825         \* 0.0825, in 1/10000
FLAT_FEE == 4990        \* 4.99, in mills
FirstNewOrderId == 6    \* OrderService.nextId

OrderStatuses == {"pending", "processing", "shipped", "delivered", "cancelled"}

\* new Date(created_at).getTime(), in minutes since 2025-01-01T00:00Z, of a
\* timestamp <<year, month, day, hour, minute>> of 2025 or 2026
getTime(t) ==
    LET daysBefore == <<0, 31, 59, 90, 120, 151, 181, 212, 243, 273, 304, 334>>
        days == (t[1] - 2025) * 365 + daysBefore[t[2]] + (t[3] - 1)
    IN  (days * 24 + t[4]) * 60 + t[5]

OrderItem(id, order_id, product_id, quantity, price_at_purchase) ==
    [id |-> id, order_id |-> order_id, product_id |-> product_id,
     quantity |-> quantity, price_at_purchase |-> price_at_purchase]

\* items.reduce((s, i) => s + i.price_at_purchase * i.quantity, 0)
RECURSIVE SumItems(_)
SumItems(items) ==
    IF items = <<>> THEN 0
    ELSE SumItems(SubSeq(items, 1, Len(items) - 1))
         + items[Len(items)].price_at_purchase * items[Len(items)].quantity

buildOrder(id, orderNumber, userId, status, createdAt, address, items) ==
    LET subtotal == round2(SumItems(items))
        tax == round2((subtotal * TAX_RATE) \div 10000)
        fees == FLAT_FEE
        total == round2(subtotal + tax + fees)
    IN  [id |-> id, orderNumber |-> orderNumber, user_id |-> userId,
         status |-> status, subtotal |-> subtotal, tax |-> tax,
         fees |-> fees, total |-> total,
         shipping_address |-> address, created_at |-> createdAt,
         items |-> items]

SEED_ORDERS == <<
    buildOrder(1, "ORD-10001", 998, "pending", <<2025, 12, 15, 10, 23>>,
        "742 Evergreen Terrace, Springfield, IL 62704",
        << OrderItem(1, 1, 1, 1, 79990), OrderItem(2, 1, 10, 2, 29990) >>),
    buildOrder(2, "ORD-10002", 100, "processing", <<2026, 1, 3, 14, 45>>,
        "1600 Pennsylvania Ave NW, Washington, DC 20500",
        << OrderItem(3, 2, 2, 1, 199990) >>),
    buildOrder(3, "ORD-10003", 101, "shipped", <<2026, 1, 22, 9, 12>>,
        "350 Fifth Avenue, New York, NY 10118",
        << OrderItem(4, 3, 7, 1, 34990), OrderItem(5, 3, 8, 1, 44990),
           OrderItem(6, 3, 9, 1, 39990) >>),
    buildOrder(4, "ORD-10004", 102, "delivered", <<2026, 2, 1, 16, 30>>,
        "221B Baker Street, London, CA 90210",
        << OrderItem(7, 4, 4, 1, 89990), OrderItem(8, 4, 5, 1, 129990) >>),
    buildOrder(5, "ORD-10005", 998, "cancelled", <<2026, 2, 10, 11, 5>>,
        "742 Evergreen Terrace, Springfield, IL 62704",
        << OrderItem(9, 5, 11, 3, 54990) >>) >>

\* .sort((a, b) => new Date(b.created_at).getTime() - new Date(a.created_at).getTime())
NewestOrdersFirst(arr) ==
    SortBy(arr, [k \in 1..Len(arr) |-> -getTime(arr[k].created_at)])

\* a call of the OrderService: it changes nothing outside the service
OrderServiceCall ==
    UNCHANGED <<auctions, bids, nextAuctionId, nextBidId, now, calls,
                productsTable, ordersTable, orderItemsTable, ordersIdSeq,
                clock, handlers, tx, pool, res, otherVars>>

getAllOrders ==
    /\ ret' = Of("getAllOrders", <<>>, NewestOrdersFirst(orders))
    /\ UNCHANGED orders
    /\ OrderServiceCall

getOrdersByUserId(userId) ==
    LET Mine(o) == o.user_id = userId
    IN  /\ ret' = Of("getOrdersByUserId", <<userId>>,
                      NewestOrdersFirst(SelectSeq(orders, Mine)))
        /\ UNCHANGED orders
        /\ OrderServiceCall

getOrderById(id) ==
    /\ ret' = IF FindIndex(orders, id) = 0
              THEN ThrowError("getOrderById", <<id>>, "Order not found")
              ELSE Of("getOrderById", <<id>>, <<orders[FindIndex(orders, id)]>>)
    /\ UNCHANGED orders
    /\ OrderServiceCall

\* updateOrderStatus that rebuilds the order from its items at the prices of
\* the catalogue
updateOrderStatusRepricing(id, status) ==
    LET index == FindIndex(orders, id)
        o == orders[index]
        PriceOf(productId) ==
            IF FindIndex(products, productId) = 0 THEN 0
            ELSE products[FindIndex(products, productId)].price
        items == [k \in 1..Len(o.items) |->
                     [o.items[k] EXCEPT !.price_at_purchase =
                                             PriceOf(o.items[k].product_id)]]
    IN  /\ IF index = 0
             THEN /\ ret' = ThrowError("updateOrderStatus", <<id, status>>,
                                      "Order not found")
                  /\ UNCHANGED orders
             ELSE /\ orders' = [orders EXCEPT ![index] =
                                   buildOrder(o.id, o.orderNumber, o.user_id,
                                              status, o.created_at,
                                              o.shipping_address, items)]
                  /\ ret' = Of("updateOrderStatus", <<id, status>>,
                                <<orders'[index]>>)
        /\ OrderServiceCall

updateOrderStatus(id, status) ==
    LET index == FindIndex(orders, id)
    IN  /\ IF index = 0
             THEN /\ ret' = ThrowError("updateOrderStatus", <<id, status>>,
                                      "Order not found")
                  /\ UNCHANGED orders
             ELSE /\ orders' = [orders EXCEPT ![index].status = status]
                  /\ ret' = Of("updateOrderStatus", <<id, status>>,
                                <<orders'[index]>>)
        /\ OrderServiceCall

\* .reduce((sum, o) => sum + o.total, 0)
RECURSIVE SumTotals(_)
SumTotals(arr) ==
    IF arr = <<>> THEN 0
    ELSE SumTotals(SubSeq(arr, 1, Len(arr) - 1)) + arr[Len(arr)].total

\* getTotalRevenue and getOrderCount return a number, not an Observable: the
\* dashboard takes it at once
getTotalRevenue ==
    LET Counted(o) == o.status # "cancelled"
    IN  /\ ret' = Of("getTotalRevenue", <<>>,
                      <<round2(SumTotals(SelectSeq(orders, Counted)))>>)
        /\ UNCHANGED orders
        /\ OrderServiceCall

\* return this.orders.length
getOrderCount ==
    /\ ret' = Of("getOrderCount", <<>>, <<Len(orders)>>)
    /\ UNCHANGED orders
    /\ OrderServiceCall

----------------------------------------------------------------------------
(* Orders, server side: the order routes of the Express API                *)
(* (backend/server.js, lines 86-254) over the PostgreSQL schema of the     *)
(* seed script (backend/middleware/admin.js, lines 84-124).  A handler     *)
(* advances from one await to the next; statements between two awaits run  *)
(* together.  Transactions run at READ COMMITTED: other connections see a  *)
(* transaction's rows only once it has committed, and an UPDATE waits for  *)
(* the row lock of an uncommitted UPDATE of the same row.                  *)

Conns == {1, 2}         \* handlers of POST /api/orders that can be in flight

validStatuses == OrderStatuses

\* req.user, as the auth middleware decodes it from the token: user 1 is the
\* seeded admin, user 2 the seeded test user, user 3 a registered user
ReqUser(id) == [id |-> id, role |-> IF id = 1 THEN "admin" ELSE "user"]

NoUser == [id |-> 0, role |-> "none"]

\* an item of the request body: { productId, quantity, price }
Item(productId, quantity, price) ==
    [productId |-> productId, quantity |-> quantity, price |-> price]

\* stock of the seeded products 1, 6 and 10
SeedStock == (1 :> 15) @@ (6 :> 5) @@ (10 :> 35)

NoTx == [startedAt |-> 0, order |-> <<>>, items |-> <<>>,
         delta |-> [p \in DOMAIN SeedStock |-> 0], locks |-> {}]

\* `order` holds orderResult.rows[0] once the INSERT has answered
IdleHandler ==
    [pc |-> "idle", user |-> NoUser, body |-> <<>>, order |-> <<>>, k |-> 0]

\* res.status(status).json(...): `rows` holds the row or rows of the body
Res(op, user, args, status, error, rows) ==
    [op |-> op, user |-> user, args |-> args, status |-> status,
     error |-> error, rows |-> rows]

NoResponse == Res("none", NoUser, <<>>, 0, "", <<>>)

\* the client has taken the previous response
Received == res = NoResponse

\* items.reduce((sum, item) => sum + (item.price * item.quantity), 0)
RECURSIVE OrderTotal(_)
OrderTotal(items) ==
    IF items = <<>> THEN 0
    ELSE OrderTotal(SubSeq(items, 1, Len(items) - 1))
         + items[Len(items)].price * items[Len(items)].quantity

\* a step of the order routes: it changes nothing in the browser
ServerStep ==
    UNCHANGED <<auctions, bids, nextAuctionId, nextBidId, now, calls, ret,
                orders, otherVars>>

\* Finish without the finally block: the client stays checked out
FinishKeepingClient(c, user, body, status, error, rows) ==
    /\ res' = Res("POST /api/orders", user, body, status, error, rows)
    /\ pool' = pool \cup {c}
    /\ handlers' = [handlers EXCEPT ![c] = IdleHandler]

\* return res.status(...).json(...) inside try: the finally block releases
\* the client
Finish(c, user, body, status, error, rows) ==
    /\ res' = Res("POST /api/orders", user, body, status, error, rows)
    /\ pool' = pool \ {c}
    /\ handlers' = [handlers EXCEPT ![c] = IdleHandler]

\* the INSERTs into orders that the handlers in flight have still to make
Pending == Cardinality({c \in Conns : handlers[c].pc = "begun"})

\* router.post('/'): await pool.connect(), the two checks of the body and
\* await client.query('BEGIN')
Connect(c, user, body) ==
    /\ handlers[c].pc = "idle"
    /\ \A d \in Conns : d < c => handlers[d].pc # "idle"
    /\ IF "items" \notin DOMAIN body \/ body.items = <<>>
         THEN /\ Finish(c, user, body, 400,
                        "Order must contain at least one item.", <<>>)
              /\ UNCHANGED <<clock, tx>>
       ELSE IF "shippingAddress" \notin DOMAIN body \/ body.shippingAddress = ""
         THEN /\ Finish(c, user, body, 400,
                        "Shipping address is required.", <<>>)
              /\ UNCHANGED <<clock, tx>>
       ELSE /\ ordersIdSeq + Pending <= MaxOrders
            /\ handlers' = [handlers EXCEPT ![c] =
                               [pc |-> "begun", user |-> user, body |-> body,
                                order |-> <<>>, k |-> 1]]
            /\ pool' = pool \cup {c}
            /\ tx' = [tx EXCEPT ![c].startedAt = clock]
            /\ clock' = clock + 1
            /\ UNCHANGED res
    /\ UNCHANGED <<productsTable, ordersTable, orderItemsTable, ordersIdSeq>>
    /\ ServerStep

\* INSERT INTO orders (user_id, total, shipping_address) ... RETURNING *
InsertOrder(c) ==
    LET body == handlers[c].body
        total == OrderTotal(body.items)
        order == [id |-> ordersIdSeq, user_id |-> handlers[c].user.id,
                  status |-> "pending", total |-> round2(total),
                  shipping_address |-> body.shippingAddress,
                  created_at |-> tx[c].startedAt]
    IN  /\ handlers[c].pc = "begun"
        /\ ordersIdSeq' = ordersIdSeq + 1
        /\ tx' = [tx EXCEPT ![c].order = <<order>>]
        /\ handlers' = [handlers EXCEPT ![c].pc = "insert_item",
                                         ![c].order = <<order>>]
        /\ UNCHANGED <<productsTable, ordersTable, orderItemsTable, clock,
                       pool, res>>
        /\ ServerStep

\* INSERT INTO order_items ...: product_id REFERENCES products(id), so the
\* statement fails for a product that does not exist
InsertItem(c) ==
    LET item == handlers[c].body.items[handlers[c].k]
        row == [order_id |-> handlers[c].order[1].id, product_id |-> item.productId,
                quantity |-> item.quantity,
                price_at_purchase |-> round2(item.price)]
    IN  /\ handlers[c].pc = "insert_item"
        /\ IF item.productId \in DOMAIN productsTable
             THEN /\ tx' = [tx EXCEPT ![c].items = Append(@, row)]
                  /\ handlers' = [handlers EXCEPT ![c].pc = "update_stock"]
             ELSE /\ handlers' = [handlers EXCEPT ![c].pc = "failed"]
                  /\ UNCHANGED tx
        /\ UNCHANGED <<productsTable, ordersTable, orderItemsTable,
                       ordersIdSeq, clock, pool, res>>
        /\ ServerStep

\* the connection waits for the lock of a row that connection d has updated
WaitsFor(c, d) ==
    /\ c # d
    /\ handlers[c].pc = "update_stock"
    /\ handlers[c].body.items[handlers[c].k].productId \in tx[d].locks

\* UPDATE products SET stock = stock - $1 WHERE id = $2: waits while another
\* transaction holds the row; PostgreSQL aborts a statement whose wait closes
\* a cycle (deadlock detected)
UpdateStock(c) ==
    LET item == handlers[c].body.items[handlers[c].k]
        last == handlers[c].k = Len(handlers[c].body.items)
    IN  /\ handlers[c].pc = "update_stock"
        /\ IF \E d \in Conns : WaitsFor(c, d)
             THEN /\ \E d \in Conns : WaitsFor(c, d) /\ WaitsFor(d, c)
                  /\ handlers' = [handlers EXCEPT ![c].pc = "failed"]
                  /\ UNCHANGED tx
             ELSE /\ tx' = [tx EXCEPT
                        ![c].delta[item.productId] = @ - item.quantity,
                        ![c].locks = @ \cup {item.productId}]
                  /\ handlers' = [handlers EXCEPT
                        ![c].pc = IF last THEN "commit" ELSE "insert_item",
                        ![c].k = @ + 1]
        /\ UNCHANGED <<productsTable, ordersTable, orderItemsTable,
                       ordersIdSeq, clock, pool, res>>
        /\ ServerStep

\* await client.query('COMMIT'); res.status(201).json(order); finally
Commit(c) ==
    /\ handlers[c].pc = "commit"
    /\ ordersTable' = ordersTable \o tx[c].order
    /\ orderItemsTable' = orderItemsTable \o tx[c].items
    /\ productsTable' = [p \in DOMAIN productsTable |->
                            productsTable[p] + tx[c].delta[p]]
    /\ tx' = [tx EXCEPT ![c] = NoTx]
    /\ Finish(c, handlers[c].user, handlers[c].body, 201, "", handlers[c].order)
    /\ UNCHANGED <<ordersIdSeq, clock>>
    /\ ServerStep

\* Rollback for a handler that never sent BEGIN: each statement that had
\* succeeded stays applied
RollbackKeepingWrites(c) ==
    /\ handlers[c].pc = "failed"
    /\ ordersTable' = ordersTable \o tx[c].order
    /\ orderItemsTable' = orderItemsTable \o tx[c].items
    /\ productsTable' = [p \in DOMAIN productsTable |->
                            productsTable[p] + tx[c].delta[p]]
    /\ tx' = [tx EXCEPT ![c] = NoTx]
    /\ Finish(c, handlers[c].user, handlers[c].body, 500,
              "Server error creating order.", <<>>)
    /\ UNCHANGED <<ordersIdSeq, clock>>
    /\ ServerStep

\* catch (err): await client.query('ROLLBACK'); res.status(500).json(...);
\* finally
Rollback(c) ==
    /\ handlers[c].pc = "failed"
    /\ tx' = [tx EXCEPT ![c] = NoTx]
    /\ Finish(c, handlers[c].user, handlers[c].body, 500,
              "Server error creating order.", <<>>)
    /\ UNCHANGED <<productsTable, ordersTable, orderItemsTable, ordersIdSeq,
                   clock>>
    /\ ServerStep

\* a request served by pool.query alone
Query(response) ==
    /\ res' = response
    /\ UNCHANGED <<productsTable, orderItemsTable, ordersIdSeq, clock,
                   handlers, tx, pool>>
    /\ ServerStep

\* ORDER BY created_at, without DESC
CreatedAtAsc(rows) == SortBy(rows, [k \in 1..Len(rows) |-> rows[k].created_at])

\* ORDER BY created_at DESC
CreatedAtDesc(rows) == SortBy(rows, [k \in 1..Len(rows) |-> -rows[k].created_at])

\* router.get('/')
listOrders(user) ==
    LET Own(o) == o.user_id = user.id
    IN  /\ Query(Res("GET /api/orders", user, <<>>, 200, "",
                     IF user.role = "admin"
                     THEN CreatedAtDesc(ordersTable)
                     ELSE CreatedAtDesc(SelectSeq(ordersTable, Own))))
        /\ UNCHANGED ordersTable

\* getOrder without the check of the caller
getOrderOfAnyone(user, id) ==
    LET i == FindIndex(ordersTable, id)
        order == ordersTable[i]
        Of_order(r) == r.order_id = id
        op == "GET /api/orders/:id"
    IN  /\ Query(IF i = 0
                 THEN Res(op, user, <<id>>, 404, "Order not found.", <<>>)
                 ELSE Res(op, user, <<id>>, 200, "",
                          <<[order |-> order,
                             items |-> SelectSeq(orderItemsTable, Of_order)]>>))
        /\ UNCHANGED ordersTable

\* router.get('/:id'): the order row with its items
getOrder(user, id) ==
    LET i == FindIndex(ordersTable, id)
        order == ordersTable[i]
        Of_order(r) == r.order_id = id
        op == "GET /api/orders/:id"
    IN  /\ Query(IF i = 0
                 THEN Res(op, user, <<id>>, 404, "Order not found.", <<>>)
                 ELSE IF user.role # "admin" /\ order.user_id # user.id
                 THEN Res(op, user, <<id>>, 403, "Access denied.", <<>>)
                 ELSE Res(op, user, <<id>>, 200, "",
                          <<[order |-> order,
                             items |-> SelectSeq(orderItemsTable, Of_order)]>>))
        /\ UNCHANGED ordersTable

\* updateStatus without the check of the new status
updateStatusUnchecked(user, id, status) ==
    LET i == FindIndex(ordersTable, id)
        op == "PUT /api/orders/:id/status"
    IN  IF user.role # "admin"
        THEN /\ Query(Res(op, user, <<id, status>>, 403,
                          "Access denied. Admin privileges required.", <<>>))
             /\ UNCHANGED ordersTable
        ELSE IF i = 0
        THEN /\ Query(Res(op, user, <<id, status>>, 404, "Order not found.", <<>>))
             /\ UNCHANGED ordersTable
        ELSE /\ ordersTable' = [ordersTable EXCEPT ![i].status = status]
             /\ Query(Res(op, user, <<id, status>>, 200, "", <<ordersTable'[i]>>))

\* router.put('/:id/status', auth, admin, ...)
updateStatus(user, id, status) ==
    LET i == FindIndex(ordersTable, id)
        op == "PUT /api/orders/:id/status"
    IN  IF user.role # "admin"
        THEN /\ Query(Res(op, user, <<id, status>>, 403,
                          "Access denied. Admin privileges required.", <<>>))
             /\ UNCHANGED ordersTable
        ELSE IF status \notin validStatuses
        THEN /\ Query(Res(op, user, <<id, status>>, 400, "Invalid status.", <<>>))
             /\ UNCHANGED ordersTable
        ELSE IF i = 0
        THEN /\ Query(Res(op, user, <<id, status>>, 404, "Order not found.", <<>>))
             /\ UNCHANGED ordersTable
        ELSE /\ ordersTable' = [ordersTable EXCEPT ![i].status = status]
             /\ Query(Res(op, user, <<id, status>>, 200, "", <<ordersTable'[i]>>))

\* router.get('/stats/overview', auth, admin, ...) of backend/routes/users.js:
\* SELECT COUNT(*) FROM orders and SELECT COALESCE(SUM(total), 0) FROM orders
\* WHERE status != 'cancelled'; the counts of users and products are left out
statsOverview(user) ==
    LET Counted(o) == o.status # "cancelled"
        op == "GET /api/users/stats/overview"
    IN  /\ Query(IF user.role # "admin"
                 THEN Res(op, user, <<>>, 403,
                          "Access denied. Admin privileges required.", <<>>)
                 ELSE Res(op, user, <<>>, 200, "",
                          <<[totalOrders |-> Len(ordersTable),
                             totalRevenue |->
                                 SumTotals(SelectSeq(ordersTable, Counted))]>>))
        /\ UNCHANGED ordersTable

\* the client takes the response
Receive ==
    /\ ~Received
    /\ res' = NoResponse
    /\ UNCHANGED <<productsTable, ordersTable, orderItemsTable, ordersIdSeq,
                   clock, handlers, tx, pool>>
    /\ ServerStep

----------------------------------------------------------------------------
(* Reviews: the in-memory ReviewService (backend/config/db.js, lines       *)
(* 29-252).  Ratings are whole stars, an average is in tenths of a star.   *)

FirstNewReviewId == 13  \* ReviewService.nextId

ReviewStatuses == {"approved", "pending", "rejected"}

\* `comment`, a free text that no operation reads, is left out
Review(id, productId, userId, rating, title, createdAt, helpful, status) ==
    [id |-> id, productId |-> productId, userId |-> userId,
     userName |-> UserName(userId), rating |-> rating, title |-> title,
     createdAt |-> createdAt, helpful |-> helpful, status |-> status]

SEED_REVIEWS == <<
    Review(1, 1, 998, 5, "Best headphones I've owned",
           <<2025, 12, 20, 14, 30>>, 8, "approved"),
    Review(2, 1, 100, 4, "Great sound, slightly tight fit",
           <<2026, 1, 5, 9, 15>>, 3, "approved"),
    Review(3, 1, 101, 4, "Solid purchase",
           <<2026, 1, 28, 17, 45>>, 1, "approved"),
    Review(4, 2, 102, 5, "Love the health tracking",
           <<2026, 2, 5, 11, 20>>, 12, "approved"),
    Review(5, 2, 998, 4, "Stylish and functional",
           <<2026, 1, 15, 8, 0>>, 5, "approved"),
    Review(6, 3, 100, 5, "Non-slip and comfortable",
           <<2025, 11, 10, 16, 0>>, 6, "approved"),
    Review(7, 4, 102, 5, "Perfect fit and quality denim",
           <<2026, 2, 2, 13, 30>>, 4, "approved"),
    Review(8, 4, 101, 3, "Good jacket, runs small",
           <<2026, 1, 20, 10, 45>>, 7, "approved"),
    Review(9, 7, 101, 5, "Must-read for developers",
           <<2026, 1, 25, 19, 0>>, 15, "approved"),
    Review(10, 7, 100, 4, "Good principles, some basics",
           <<2026, 2, 8, 7, 30>>, 2, "approved"),
    Review(11, 5, 998, 5, "Like running on clouds",
           <<2026, 2, 12, 15, 0>>, 9, "approved"),
    Review(12, 2, 101, 2, "Battery died after 2 months",
           <<2026, 2, 18, 20, 0>>, 0, "pending") >>

\* new Date().toISOString() at hour `t` after the construction of the
\* services, taken to be 2026-03-01T09:00Z
toISOString(t) == <<2026, 3, 1, 9 + t, 0>>

\* .sort((a, b) => new Date(b.createdAt).getTime() - new Date(a.createdAt).getTime())
NewestReviewsFirst(arr) ==
    SortBy(arr, [k \in 1..Len(arr) |-> -getTime(arr[k].createdAt)])

\* approved.reduce((s, r) => s + r.rating, 0)
RECURSIVE SumRatings(_)
SumRatings(arr) ==
    IF arr = <<>> THEN 0
    ELSE SumRatings(SubSeq(arr, 1, Len(arr) - 1)) + arr[Len(arr)].rating

\* Math.round((sum / n) * 10), in tenths: half-way cases round up
RoundToTenth(sum, n) == (2 * 10 * sum + n) \div (2 * n)

\* reviews.filter(r => r.productId === productId && r.status === 'approved')
ApprovedOf(arr, productId) ==
    LET Shown(r) == r.productId = productId /\ r.status = "approved"
    IN  SelectSeq(arr, Shown)

\* a call of the ReviewService: it changes nothing outside the service
ReviewServiceCall ==
    UNCHANGED <<auctions, bids, nextAuctionId, nextBidId, now, calls,
                orderVars, catalogVars, authVars, notificationVars>>

ReviewRead(result) ==
    /\ ret' = result
    /\ UNCHANGED <<reviews, nextReviewId>>
    /\ ReviewServiceCall

getReviewsByProduct(productId) ==
    ReviewRead(Of("getReviewsByProduct", <<productId>>,
                  NewestReviewsFirst(ApprovedOf(reviews, productId))))

getReviewsByProductAdmin(productId) ==
    LET Mine(r) == r.productId = productId
    IN  ReviewRead(Of("getReviewsByProductAdmin", <<productId>>,
                      NewestReviewsFirst(SelectSeq(reviews, Mine))))

getPendingReviews ==
    LET IsPending(r) == r.status = "pending"
    IN  ReviewRead(Of("getPendingReviews", <<>>, SelectSeq(reviews, IsPending)))

\* getAverageRating that takes every review of the product, whatever its
\* status
getAverageRatingOfAll(productId) ==
    LET Mine(r) == r.productId = productId
        all == SelectSeq(reviews, Mine)
    IN  ReviewRead(Of("getAverageRating", <<productId>>,
                      <<IF Len(all) = 0 THEN 0
                        ELSE RoundToTenth(SumRatings(all), Len(all))>>))

\* getAverageRating returns a number, not an Observable
getAverageRating(productId) ==
    LET approved == ApprovedOf(reviews, productId)
    IN  ReviewRead(Of("getAverageRating", <<productId>>,
                      <<IF Len(approved) = 0 THEN 0
                        ELSE RoundToTenth(SumRatings(approved), Len(approved))>>))

\* submitReview that follows the header comment of the service: a new
\* submission waits for moderation
submitReviewPending(review) ==
    LET newReview == [id |-> nextReviewId, createdAt |-> toISOString(now),
                      helpful |-> 0, status |-> "pending"] @@ review
    IN  /\ nextReviewId < FirstNewReviewId + MaxReviews
        /\ nextReviewId' = nextReviewId + 1
        /\ reviews' = Append(reviews, newReview)
        /\ ret' = Of("submitReview", <<review>>, <<newReview>>)
        /\ ReviewServiceCall

\* { ...review, id: this.nextId++, createdAt, helpful: 0, status: 'approved' }
submitReview(review) ==
    LET newReview == [id |-> nextReviewId, createdAt |-> toISOString(now),
                      helpful |-> 0, status |-> "approved"] @@ review
    IN  /\ nextReviewId < FirstNewReviewId + MaxReviews
        /\ nextReviewId' = nextReviewId + 1
        /\ reviews' = Append(reviews, newReview)
        /\ ret' = Of("submitReview", <<review>>, <<newReview>>)
        /\ ReviewServiceCall

\* the helpful count a review started with
SeedHelpful(reviewId) ==
    IF FindIndex(SEED_REVIEWS, reviewId) = 0 THEN 0
    ELSE SEED_REVIEWS[FindIndex(SEED_REVIEWS, reviewId)].helpful

markHelpful(reviewId) ==
    LET index == FindIndex(reviews, reviewId)
    IN  /\ IF index = 0
             THEN /\ ret' = ThrowError("markHelpful", <<reviewId>>,
                                      "Review not found")
                  /\ UNCHANGED reviews
             ELSE /\ reviews[index].helpful < SeedHelpful(reviewId) + MaxHelpful
                  /\ reviews' = [reviews EXCEPT ![index].helpful = @ + 1]
                  /\ ret' = Of("markHelpful", <<reviewId>>, <<reviews'[index]>>)
        /\ UNCHANGED nextReviewId
        /\ ReviewServiceCall

updateReviewStatus(reviewId, status) ==
    LET index == FindIndex(reviews, reviewId)
    IN  /\ IF index = 0
             THEN /\ ret' = ThrowError("updateReviewStatus", <<reviewId, status>>,
                                      "Review not found")
                  /\ UNCHANGED reviews
             ELSE /\ reviews' = [reviews EXCEPT ![index].status = status]
                  /\ ret' = Of("updateReviewStatus", <<reviewId, status>>,
                                <<reviews'[index]>>)
        /\ UNCHANGED nextReviewId
        /\ ReviewServiceCall

\* this.reviews.splice(index, 1); return of(undefined)
deleteReview(reviewId) ==
    LET index == FindIndex(reviews, reviewId)
    IN  /\ IF index = 0
             THEN /\ ret' = ThrowError("deleteReview", <<reviewId>>,
                                      "Review not found")
                  /\ UNCHANGED reviews
             ELSE /\ reviews' = SubSeq(reviews, 1, index - 1)
                                \o SubSeq(reviews, index + 1, Len(reviews))
                  /\ ret' = Of("deleteReview", <<reviewId>>, <<>>)
        /\ UNCHANGED nextReviewId
        /\ ReviewServiceCall

----------------------------------------------------------------------------
(* AuthService and the auth routes                                         *)
(*                                                                         *)
(* A request of the AuthService is in flight from the call of http.post or *)
(* http.get to the step that hands its response to the code after the      *)
(* `await`.  The users and tokens carry the fields the code compares: id,  *)
(* email and role; first and last name are left out.                       *)

\* ('admin@shopng.com', adminHash, ...), ('user@shopng.com', userHash, ...):
\* `password` stands for the hash that bcrypt.compare accepts it against
SEED_USERS ==
    << [id |-> 1, email |-> "admin@shopng.com", password |-> "admin123",
        role |-> "admin"],
       [id |-> 2, email |-> "user@shopng.com", password |-> "user123",
        role |-> "user"] >>

\* signal<User | null>(null)
null == [id |-> 0, email |-> "", role |-> ""]

\* localStorage.getItem('token') === null
NoToken == [id |-> 0, email |-> "", role |-> "", iat |-> 0]

\* { id: user.id, email: user.email, ..., role: user.role }
UserOf(row) == [id |-> row.id, email |-> row.email, role |-> row.role]

\* jwt.sign({ id, email, role }, secret, { expiresIn: '7d' }): the payload
\* and the time of issue
sign(row) ==
    [id |-> row.id, email |-> row.email, role |-> row.role,
     iat |-> tokensIssued + 1]

\* an HTTP request of the AuthService, with the Authorization header the
\* interceptor gave it when it was sent
AuthRequest(op, email, password) ==
    [op |-> op, email |-> email, password |-> password, token |-> token]

AuthResponse(status, error, tok, user) ==
    [status |-> status, error |-> error, token |-> tok, user |-> user]

\* the request fails before it reaches a route (network error, status 0)
NetworkError == AuthResponse(0, "Http failure response", NoToken, null)

\* String.prototype.length of the passwords
length(s) ==
    CASE s = ""         -> 0
      [] s = "abc"      -> 3
      [] s = "wrong"    -> 5
      [] s = "user123"  -> 7
      [] s = "secret1"  -> 7
      [] s = "admin123" -> 8

UsersByEmail(email) ==
    LET Same(u) == u.email = toLowerCase(email) IN SelectSeq(usersTable, Same)

\* router.post('/register', ...): the response, and the row it inserted
postRegister(body) ==
    IF body.email = "" \/ body.password = ""
    THEN AuthResponse(400, "All fields are required.", NoToken, null)
    ELSE IF length(body.password) < 6
    THEN AuthResponse(400, "Password must be at least 6 characters.",
                      NoToken, null)
    ELSE IF UsersByEmail(body.email) # <<>>
    THEN AuthResponse(400, "Email already registered.", NoToken, null)
    ELSE LET row == [id |-> Len(usersTable) + 1,
                     email |-> toLowerCase(body.email),
                     password |-> body.password, role |-> "user"]
         IN  AuthResponse(201, "", sign(row), UserOf(row))
                 @@ [inserted |-> row]

\* router.post('/login', ...)
postLogin(body) ==
    IF body.email = "" \/ body.password = ""
    THEN AuthResponse(400, "Email and password are required.", NoToken, null)
    ELSE IF UsersByEmail(body.email) = <<>>
    THEN AuthResponse(401, "Invalid email or password.", NoToken, null)
    ELSE IF UsersByEmail(body.email)[1].password # body.password
    THEN AuthResponse(401, "Invalid email or password.", NoToken, null)
    ELSE AuthResponse(200, "", sign(UsersByEmail(body.email)[1]),
                      UserOf(UsersByEmail(body.email)[1]))

\* router.get('/me', auth, ...): `expired` is the verdict of jwt.verify on
\* the token of the Authorization header
getMe(req, expired) ==
    LET rows == LET Same(u) == u.id = req.token.id
                IN  SelectSeq(usersTable, Same)
    IN  IF req.token = NoToken
        THEN AuthResponse(401, "No token provided. Please log in.",
                          NoToken, null)
        ELSE IF expired
        THEN AuthResponse(401, "Invalid or expired token.", NoToken, null)
        ELSE IF rows = <<>>
        THEN AuthResponse(404, "User not found.", NoToken, null)
        ELSE AuthResponse(200, "", NoToken, UserOf(rows[1]))

RemoveAt(arr, k) == SubSeq(arr, 1, k - 1) \o SubSeq(arr, k + 1, Len(arr))

\* a step of the AuthService: it changes nothing outside the service and
\* the auth routes
AuthServiceCall ==
    UNCHANGED <<auctions, bids, nextAuctionId, nextBidId, now, calls,
                orderVars, catalogVars, reviewVars, notificationVars>>

\* http.post / http.get is subscribed to and the caller awaits
Send(request) ==
    /\ Len(authRequests) < MaxInFlight
    /\ authRequests' = Append(authRequests, request)
    /\ UNCHANGED <<token, currentUser, usersTable, tokensIssued, ret>>
    /\ AuthServiceCall

\* login, up to the await
login(email, password) == Send(AuthRequest("login", email, password))

\* register, up to the await
register(data) == Send(AuthRequest("register", data.email, data.password))

\* what the routes write while they answer request k with `response`
Served(response) ==
    /\ usersTable' = IF response.status = 201
                     THEN Append(usersTable, response.inserted)
                     ELSE usersTable
    /\ tokensIssued' = IF response.status \in {200, 201} /\ response.token # NoToken
                       THEN tokensIssued + 1 ELSE tokensIssued

\* login and register after the await: the token is stored and the signal
\* set, or the promise is rejected
Signed(k, response) ==
    /\ response.token # NoToken => tokensIssued < MaxTokens
    /\ response.status = 201 => Len(usersTable) < Len(SEED_USERS) + MaxRegistered
    /\ Served(response)
    /\ authRequests' = RemoveAt(authRequests, k)
    /\ IF response.status \in {200, 201}
       THEN /\ token' = response.token
            /\ currentUser' = response.user
            /\ ret' = Of(authRequests[k].op, <<authRequests[k].email>>,
                         <<response.user>>)
       ELSE /\ UNCHANGED <<token, currentUser>>
            /\ ret' = ThrowError(authRequests[k].op,
                                 <<authRequests[k].email>>, response.error)
    /\ AuthServiceCall

loginResponse(k, failed) ==
    /\ authRequests[k].op = "login"
    /\ Signed(k, IF failed THEN NetworkError ELSE postLogin(authRequests[k]))

registerResponse(k, failed) ==
    /\ authRequests[k].op = "register"
    /\ Signed(k, IF failed THEN NetworkError ELSE postRegister(authRequests[k]))

logout ==
    /\ token' = NoToken
    /\ currentUser' = null
    /\ ret' = Of("logout", <<>>, <<>>)
    /\ UNCHANGED <<authRequests, usersTable, tokensIssued>>
    /\ AuthServiceCall

getToken == token

\* the application is loaded again: the requests of the page that is left
\* are abandoned, the new AuthService starts with currentUser = null and
\* its constructor calls loadUserFromToken, which runs up to its await
constructor ==
    /\ currentUser' = null
    /\ authRequests' = IF getToken = NoToken THEN <<>>
                       ELSE <<AuthRequest("me", "", "")>>
    /\ ret' = NoCall
    /\ UNCHANGED <<token, usersTable, tokensIssued>>
    /\ AuthServiceCall

\* loadUserFromToken after the await: try { set(user) } catch { removeItem;
\* set(null) }
loadUserFromToken(k, failed, expired) ==
    LET response == IF failed THEN NetworkError
                    ELSE getMe(authRequests[k], expired)
    IN  /\ authRequests[k].op = "me"
        /\ authRequests' = RemoveAt(authRequests, k)
        /\ IF response.status = 200
           THEN /\ currentUser' = response.user
                /\ UNCHANGED token
           ELSE /\ token' = NoToken
                /\ currentUser' = null
        /\ ret' = Of("loadUserFromToken", <<authRequests[k].token>>, <<>>)
        /\ UNCHANGED <<usersTable, tokensIssued>>
        /\ AuthServiceCall

----------------------------------------------------------------------------
(* NotificationService                                                     *)

MAX_VISIBLE == 5

FirstNotificationId == 1

AppNotification(id, message, type, createdAt) ==
    [id |-> id, message |-> message, type |-> type, createdAt |-> createdAt]

\* what a call of the NotificationService leaves alone
NotificationServiceCall ==
    UNCHANGED <<vars, orderVars, catalogVars, reviewVars, authVars>>

\* show without the trimming of the list
showUntrimmed(message, type, duration) ==
    LET id == nextNotificationId
    IN  /\ id < FirstNotificationId + MaxShown
        /\ nextNotificationId' = id + 1
        /\ notifications' =
               Append(notifications, AppNotification(id, message, type, now))
        /\ timers' = IF duration > 0 THEN timers \cup {id} ELSE timers

\* updated.splice(0, updated.length - MAX_VISIBLE) removes the first
\* entries; setTimeout(() => this.dismiss(id), duration) is a pending timer
show(message, type, duration) ==
    LET id == nextNotificationId
        updated == Append(notifications,
                          AppNotification(id, message, type, now))
    IN  /\ id < FirstNotificationId + MaxShown
        /\ nextNotificationId' = id + 1
        /\ notifications' =
               IF Len(updated) > MAX_VISIBLE
               THEN SubSeq(updated, Len(updated) - MAX_VISIBLE + 1,
                           Len(updated))
               ELSE updated
        /\ timers' = IF duration > 0 THEN timers \cup {id} ELSE timers

success(message) == show(message, "success", 4000)

error(message) == show(message, "error", 5000)

info(message) == show(message, "info", 4000)

warning(message) == show(message, "warning", 4000)

\* dismiss removing the oldest notification when the id is not in the list
dismissOldest(id) ==
    LET Other(n) == n.id # id
        Kept(n) == n.id # notifications[1].id
    IN  /\ notifications' =
               IF \E k \in 1..Len(notifications) : notifications[k].id = id
               THEN SelectSeq(notifications, Other)
               ELSE IF notifications = <<>> THEN notifications
               ELSE SelectSeq(notifications, Kept)
        /\ UNCHANGED nextNotificationId

\* this.notifications().filter(n => n.id !== id)
dismiss(id) ==
    LET Other(n) == n.id # id
    IN  /\ notifications' = SelectSeq(notifications, Other)
        /\ UNCHANGED nextNotificationId

\* the timer set by show fires: () => this.dismiss(id)
timeout(id) ==
    /\ id \in timers
    /\ timers' = timers \ {id}
    /\ dismiss(id)

----------------------------------------------------------------------------
(* Inputs of the order calls and requests                                  *)

ShippingAddress == "742 Evergreen Terrace, Springfield, IL 62704"

\* requests <<user, body>> of POST /api/orders: the two items of seed
\* order 1, the same products in the other order, six of a product with five
\* in stock, a product that does not exist after one that does, no item, no
\* item list, no address
PostRequests ==
    { <<2, [items |-> <<Item(1, 1, 79990), Item(10, 2, 29990)>>,
            shippingAddress |-> ShippingAddress]>>,
      <<3, [items |-> <<Item(10, 1, 29990), Item(1, 1, 79990)>>,
            shippingAddress |-> ShippingAddress]>>,
      <<3, [items |-> <<Item(6, 6, 159990)>>,
            shippingAddress |-> ShippingAddress]>>,
      <<2, [items |-> <<Item(1, 1, 79990), Item(99, 1, 24990)>>,
            shippingAddress |-> ShippingAddress]>>,
      <<2, [items |-> <<>>, shippingAddress |-> ShippingAddress]>>,
      <<3, [shippingAddress |-> ShippingAddress]>>,
      <<2, [items |-> <<Item(1, 1, 79990)>>]>> }

ListCallers == {1, 2}                   \* the users who list orders
Callers == {1, 2, 3}                    \* the users who ask for an order
StatusUpdaters == {1, 2}                \* the users who send a status update
ServerOrderIds == {1}                   \* the :id of the requests
ServerStatuses == {"shipped", "bogus"}
OrderIds == {1, FirstNewOrderId}        \* a seed order and an id of no order
OrderOwners == {998, 100}
ClientStatuses == {"cancelled"}
\* the order of the scenario, placed by user 2
ScenarioRequests ==
    { <<2, [items |-> <<Item(1, 1, 79990), Item(10, 2, 29990)>>,
            shippingAddress |-> ShippingAddress]>> }
AdminStatuses == {"shipped", "cancelled"}
RepricedProducts == {1}                 \* the product whose price is edited
NewPrices == {84990}                    \* 84.99, for 79.99

----------------------------------------------------------------------------
(* Inputs                                                                  *)

StartHours == {9}                       \* local hour of day at construction
Instants == {0} \cup (5..MaxTime)        \* the hours at which calls are made
\* the seed auction that expires first, the sold seed auction, the new
\* auctions and an id that no auction has
AuctionIds == {2, 5} \cup (FirstNewAuctionId..nextAuctionId)
Sellers == {100}
Bidders == {100, 101, 998}             \* the callers of placeBid and cancelAuction
StartingPrices == {10005}               \* 10.005, which round2 makes 10.01
EndsAtOffsets == {-1, 1}                \* endsAt - now, in hours
BidDeltas == {-1000, 0, 995, 1000, 1004} \* amount - currentPrice, in mills
SearchTerms == {"Clothing", "Jane S."}

CurrentPriceOf(id) ==
    IF FindIndex(auctions, id) = 0 THEN 0
    ELSE auctions[FindIndex(auctions, id)].currentPrice

----------------------------------------------------------------------------
(* Specification                                                           *)

Init ==
    \E hod \in StartHours :
        /\ auctions = SEED_AUCTIONS(hod)
        /\ bids = SEED_BIDS(hod)
        /\ nextAuctionId = FirstNewAuctionId
        /\ nextBidId = FirstNewBidId
        /\ now = 0
        /\ calls = 0
        /\ ret = NoCall
        /\ orders = SEED_ORDERS
        /\ productsTable = SeedStock
        /\ ordersTable = <<>>
        /\ orderItemsTable = <<>>
        /\ ordersIdSeq = 1
        /\ clock = 1
        /\ handlers = [c \in Conns |-> IdleHandler]
        /\ tx = [c \in Conns |-> NoTx]
        /\ pool = {}
        /\ res = NoResponse
        /\ products = [k \in 1..Len(FAKE_PRODUCTS) |->
                          FAKE_PRODUCTS[k] @@ [disabled |-> FALSE]]
        /\ nextProductId = FirstNewProductId
        /\ reviews = SEED_REVIEWS
        /\ nextReviewId = FirstNewReviewId
        /\ token = NoToken
        /\ currentUser = null
        /\ authRequests = <<>>
        /\ usersTable = SEED_USERS
        /\ tokensIssued = 0
        /\ notifications = <<>>
        /\ nextNotificationId = FirstNotificationId
        /\ timers = {}

CreateAuction ==
    /\ Idle
    /\ \E sellerId \in Sellers, startingPrice \in StartingPrices, d \in EndsAtOffsets :
        createAuction(sellerId, "New Listing", "", "Home", startingPrice, now + d)
    /\ UNCHANGED nonAuctionVars

PlaceBid ==
    /\ Idle
    /\ \E auctionId \in AuctionIds, bidderId \in Bidders, d \in BidDeltas :
        placeBid(auctionId, bidderId, UserName(bidderId),
                 CurrentPriceOf(auctionId) + d)
    /\ UNCHANGED nonAuctionVars

CancelAuction ==
    /\ Idle
    /\ \E auctionId \in AuctionIds, sellerId \in Bidders :
        cancelAuction(auctionId, sellerId)
    /\ UNCHANGED nonAuctionVars

UpdateAuctionStatus ==
    /\ Idle
    /\ \E id \in AuctionIds, status \in Statuses : updateAuctionStatus(id, status)
    /\ UNCHANGED nonAuctionVars

GetActiveAuctions ==
    /\ Idle
    /\ getActiveAuctions
    /\ UNCHANGED nonAuctionVars

GetAllAuctions ==
    /\ Idle
    /\ getAllAuctions
    /\ UNCHANGED nonAuctionVars

GetAuctionById ==
    /\ Idle
    /\ \E id \in AuctionIds : getAuctionById(id)
    /\ UNCHANGED nonAuctionVars

GetAuctionsBySeller ==
    /\ Idle
    /\ \E sellerId \in Sellers : getAuctionsBySeller(sellerId)
    /\ UNCHANGED nonAuctionVars

GetAuctionsByBidder ==
    /\ Idle
    /\ \E bidderId \in Sellers : getAuctionsByBidder(bidderId)
    /\ UNCHANGED nonAuctionVars

SearchAuctions ==
    /\ Idle
    /\ \E term \in SearchTerms : searchAuctions(term)
    /\ UNCHANGED nonAuctionVars

GetBidsByAuction ==
    /\ Idle
    /\ \E auctionId \in AuctionIds : getBidsByAuction(auctionId)
    /\ UNCHANGED nonAuctionVars

Advance ==
    /\ Idle
    /\ \E t \in Instants : Tick(t)
    /\ UNCHANGED nonAuctionVars

Next ==
    \/ Advance
    \/ Subscribe
    \/ CreateAuction
    \/ PlaceBid
    \/ CancelAuction
    \/ UpdateAuctionStatus
    \/ GetActiveAuctions
    \/ GetAllAuctions
    \/ GetAuctionById
    \/ GetAuctionsBySeller
    \/ GetAuctionsByBidder
    \/ SearchAuctions
    \/ GetBidsByAuction

Spec == Init /\ [][Next]_vars

----------------------------------------------------------------------------
(* Specification of the orders                                             *)

\* one event at a time: the value of a call and the response to a request
\* are taken before the next event
Quiet == Idle /\ Received

PostOrder ==
    /\ Quiet
    /\ \E c \in Conns, request \in PostRequests :
          Connect(c, ReqUser(request[1]), request[2])

InsertOrderRow == Quiet /\ \E c \in Conns : InsertOrder(c)

InsertOrderItem == Quiet /\ \E c \in Conns : InsertItem(c)

UpdateProductStock == Quiet /\ \E c \in Conns : UpdateStock(c)

CommitOrder == Quiet /\ \E c \in Conns : Commit(c)

RollbackOrder == Quiet /\ \E c \in Conns : Rollback(c)

ListOrders == Quiet /\ \E user \in ListCallers : listOrders(ReqUser(user))

GetOrder ==
    /\ Quiet
    /\ \E user \in Callers, id \in ServerOrderIds : getOrder(ReqUser(user), id)

UpdateStatus ==
    /\ Quiet
    /\ \E user \in StatusUpdaters, id \in ServerOrderIds, status \in ServerStatuses :
          updateStatus(ReqUser(user), id, status)

GetAllOrders == Quiet /\ getAllOrders

GetOrdersByUserId == Quiet /\ \E userId \in OrderOwners : getOrdersByUserId(userId)

GetOrderById == Quiet /\ \E id \in OrderIds : getOrderById(id)

UpdateOrderStatus ==
    /\ Quiet
    /\ \E id \in OrderIds, status \in ClientStatuses : updateOrderStatus(id, status)

NextOrders ==
    \/ PostOrder
    \/ InsertOrderRow
    \/ InsertOrderItem
    \/ UpdateProductStock
    \/ CommitOrder
    \/ RollbackOrder
    \/ ListOrders
    \/ GetOrder
    \/ UpdateStatus
    \/ Receive
    \/ GetAllOrders
    \/ GetOrdersByUserId
    \/ GetOrderById
    \/ UpdateOrderStatus
    \/ Subscribe

SpecOrders == Init /\ [][NextOrders]_allVars

----------------------------------------------------------------------------
(* Specification of the administration of the orders: customers place the *)
(* order of the scenario, the admin updates statuses, edits the price of  *)
(* a product and reads the figures of the dashboard                        *)

PostScenarioOrder ==
    /\ Quiet
    /\ \E c \in Conns, request \in ScenarioRequests :
          Connect(c, ReqUser(request[1]), request[2])

AdminUpdateStatus ==
    /\ Quiet
    /\ \E user \in StatusUpdaters, id \in ServerOrderIds, status \in AdminStatuses :
          updateStatus(ReqUser(user), id, status)

GetTotalRevenue == Quiet /\ getTotalRevenue

GetOrderCount == Quiet /\ getOrderCount

StatsOverview == Quiet /\ \E user \in StatusUpdaters : statsOverview(ReqUser(user))

\* the admin edits the price of a product of the catalogue
UpdateProductPrice ==
    /\ Quiet
    /\ \E id \in RepricedProducts, price \in NewPrices :
          updateProduct(id, [price |-> price])

NextAdmin ==
    \/ PostScenarioOrder
    \/ InsertOrderRow
    \/ InsertOrderItem
    \/ UpdateProductStock
    \/ CommitOrder
    \/ AdminUpdateStatus
    \/ StatsOverview
    \/ Receive
    \/ UpdateOrderStatus
    \/ GetTotalRevenue
    \/ GetOrderCount
    \/ UpdateProductPrice
    \/ Subscribe

SpecAdmin == Init /\ [][NextAdmin]_allVars

----------------------------------------------------------------------------
(* Specification of the product catalogue                                  *)

\* a product found by name, a product found by description, which is also
\* the best rated one, the created products and an id of no product
ProductIds == {2, 8} \cup (FirstNewProductId..nextProductId)
\* what the admin form submits: a product with and without category
NewProducts ==
    { [name |-> "Desk Organizer", description |-> "", price |-> 19990,
       image |-> "", category |-> "Home", rating |-> 0, stock |-> 0,
       disabled |-> FALSE],
      [name |-> "Gift Card", price |-> 25000] }
ProductUpdates == { [price |-> 84990], [disabled |-> TRUE] }
ProductQueries ==
    { [category |-> "electronics", search |-> "", page |-> 0, limit |-> 0],
      [category |-> "", search |-> "Master JavaScript", page |-> 2, limit |-> 5],
      [category |-> "", search |-> "", page |-> 2, limit |-> 5] }
ProductCategories == {"books", "Electronics"}
ProductSearchTerms == {"Smart Watch Pro", "Master JavaScript"}

CreateProduct == Idle /\ \E product \in NewProducts : createProduct(product)

UpdateProduct ==
    /\ Idle
    /\ \E id \in ProductIds, updates \in ProductUpdates : updateProduct(id, updates)

DeleteProduct == Idle /\ \E id \in ProductIds : deleteProduct(id)

ToggleDisabled == Idle /\ \E id \in ProductIds : toggleDisabled(id)

GetProducts == Idle /\ \E params \in ProductQueries : getProducts(params)

GetAllProducts == Idle /\ getAllProducts

GetProductById == Idle /\ \E id \in ProductIds : getProductById(id)

GetProductsByCategory ==
    Idle /\ \E category \in ProductCategories : getProductsByCategory(category)

SearchProducts == Idle /\ \E term \in ProductSearchTerms : searchProducts(term)

GetCategories == Idle /\ getCategories

GetFeaturedProducts == Idle /\ getFeaturedProducts

GetAllProductsAdmin == Idle /\ getAllProductsAdmin

NextProducts ==
    \/ CreateProduct
    \/ UpdateProduct
    \/ DeleteProduct
    \/ ToggleDisabled
    \/ GetProducts
    \/ GetAllProducts
    \/ GetProductById
    \/ GetProductsByCategory
    \/ SearchProducts
    \/ GetCategories
    \/ GetFeaturedProducts
    \/ GetAllProductsAdmin
    \/ Subscribe

SpecProducts == Init /\ [][NextProducts]_allVars

----------------------------------------------------------------------------
(* Specification of the reviews                                            *)

\* a product with two approved reviews and a pending one, and a product
\* without review
ReviewedProducts == {2, 6}
\* the pending seed review, the submitted reviews and an id of no review
ReviewIds == {12} \cup (FirstNewReviewId..nextReviewId)
NewRatings == {5, 2}
Reviewers == {100}

SubmitReview ==
    /\ Idle
    /\ \E productId \in ReviewedProducts, userId \in Reviewers, rating \in NewRatings :
          submitReview([productId |-> productId, userId |-> userId,
                        userName |-> UserName(userId), rating |-> rating,
                        title |-> "New review"])

MarkHelpful == Idle /\ \E reviewId \in ReviewIds : markHelpful(reviewId)

UpdateReviewStatus ==
    /\ Idle
    /\ \E reviewId \in ReviewIds, status \in ReviewStatuses :
          updateReviewStatus(reviewId, status)

DeleteReview == Idle /\ \E reviewId \in ReviewIds : deleteReview(reviewId)

GetReviewsByProduct ==
    Idle /\ \E productId \in ReviewedProducts : getReviewsByProduct(productId)

GetReviewsByProductAdmin ==
    Idle /\ \E productId \in ReviewedProducts : getReviewsByProductAdmin(productId)

GetPendingReviews == Idle /\ getPendingReviews

GetAverageRating ==
    Idle /\ \E productId \in ReviewedProducts : getAverageRating(productId)

NextReviews ==
    \/ SubmitReview
    \/ MarkHelpful
    \/ UpdateReviewStatus
    \/ DeleteReview
    \/ GetReviewsByProduct
    \/ GetReviewsByProductAdmin
    \/ GetPendingReviews
    \/ GetAverageRating
    \/ Subscribe

SpecReviews == Init /\ [][NextReviews]_allVars

----------------------------------------------------------------------------
(* Specification of the session: logins, registrations and logouts of one  *)
(* browser, page loads that restore the session from the stored token, and *)
(* the responses of the auth routes, which arrive in any order             *)

Credentials ==
    { [email |-> "user@shopng.com", password |-> "user123"],
      [email |-> "admin@shopng.com", password |-> "admin123"],
      [email |-> "user@shopng.com", password |-> "wrong"] }

Registrations ==
    { [email |-> "New@shopng.com", password |-> "secret1"],
      [email |-> "New@shopng.com", password |-> "abc"] }

Login ==
    /\ Idle
    /\ \E c \in Credentials : login(c.email, c.password)

Register ==
    /\ Idle
    /\ \E data \in Registrations : register(data)

LoginResponse ==
    /\ Idle
    /\ \E k \in DOMAIN authRequests, failed \in BOOLEAN :
           loginResponse(k, failed)

RegisterResponse ==
    /\ Idle
    /\ \E k \in DOMAIN authRequests, failed \in BOOLEAN :
           registerResponse(k, failed)

\* the account menu offers the logout to a logged-in user
Logout ==
    /\ Idle
    /\ currentUser # null
    /\ logout

Reload ==
    /\ Idle
    /\ constructor

RestoreResponse ==
    /\ Idle
    /\ \E k \in DOMAIN authRequests, failed \in BOOLEAN, expired \in BOOLEAN :
           loadUserFromToken(k, failed, expired)

NextAuth ==
    \/ Login
    \/ Register
    \/ LoginResponse
    \/ RegisterResponse
    \/ Logout
    \/ Reload
    \/ RestoreResponse
    \/ Subscribe

SpecAuth == Init /\ [][NextAuth]_allVars

----------------------------------------------------------------------------
(* Specification of the notifications: toasts with a timer, toasts without *)
(* one, manual dismissals and the timers, which fire in any order          *)

NotificationIds == FirstNotificationId..(FirstNotificationId + MaxShown - 1)

Messages == {"Added to cart!"}

ShowSuccess ==
    /\ \E message \in Messages : success(message)
    /\ NotificationServiceCall

ShowPersistent ==
    /\ show("Auction ending soon", "warning", 0)
    /\ NotificationServiceCall

Dismiss ==
    /\ \E id \in FirstNotificationId..(nextNotificationId - 1) : dismiss(id)
    /\ UNCHANGED timers
    /\ NotificationServiceCall

Timeout ==
    /\ \E id \in NotificationIds : timeout(id)
    /\ NotificationServiceCall

NextNotifications ==
    \/ ShowSuccess
    \/ ShowPersistent
    \/ Dismiss
    \/ Timeout

SpecNotifications == Init /\ [][NextNotifications]_allVars

\* the event loop does not leave the timers that are due waiting for ever
SpecNotificationsFair ==
    /\ SpecNotifications
    /\ WF_allVars(Timeout)

----------------------------------------------------------------------------
(* Vocabulary of the properties                                            *)

Indices == 1..Len(auctions)

Max(S) == CHOOSE x \in S : \A y \in S : y <= x

\* the bids of the ledger that belong to an auction, in ledger order
LedgerOf(id) == BidsOf(bids, id)

\* the bids of an auction that no bid of that auction exceeds
HighestBids(id) ==
    {b \in Range(LedgerOf(id)) :
        \A c \in Range(LedgerOf(id)) : c.amount <= b.amount}

Terminal == {"sold", "ended", "cancelled"}

ReadOps == {"getActiveAuctions", "getAllAuctions", "getAuctionById",
            "getAuctionsBySeller", "getAuctionsByBidder", "searchAuctions"}

Expired(a) == a.status = "active" /\ a.endsAt <= now

----------------------------------------------------------------------------
(* C1: in every reachable state each auction has currentPrice equal to the *)
(* maximum of its startingPrice and of the amounts of its bids, and        *)
(* bidCount equal to the number of its bids in the ledger.                 *)
C1_PriceAndCount ==
    \A i \in Indices :
        LET a == auctions[i]
            amounts == {b.amount : b \in Range(LedgerOf(a.id))}
        IN  /\ a.currentPrice = Max(amounts \cup {a.startingPrice})
            /\ a.bidCount = Len(LedgerOf(a.id))

\* a created auction took its first bid
C1_Witness ==
    \E i \in Indices :
        /\ auctions[i].id >= FirstNewAuctionId
        /\ auctions[i].bidCount = 1
        /\ auctions[i].currentPrice > auctions[i].startingPrice
        /\ auctions[i].currentPrice = bids[Len(bids)].amount

(* C2: a sold auction has exactly one winner, the bidder of its highest   *)
(* bid; an ended auction with zero bids has no winner.                     *)
C2_SoldHasTopBidderAsWinner ==
    \A i \in Indices :
        LET a == auctions[i]
        IN  /\ a.status = "sold" =>
                /\ a.winnerId # None
                /\ \E b \in HighestBids(a.id) : b.bidderId = a.winnerId
            /\ (a.status = "ended" /\ LedgerOf(a.id) = <<>>) =>
                a.winnerId = None

(* C3: sold, ended and cancelled are terminal: no step changes the status *)
(* of an auction that has reached one of them.                             *)
C3_TerminalStatuses ==
    [][\A i \in Indices :
          auctions[i].status \in Terminal =>
              auctions'[i].status = auctions[i].status]_vars

(* C4: a read first moves every active auction whose deadline has passed  *)
(* to sold with the bidder of its highest bid as winner (at least one     *)
(* bid) or to ended without winner (no bid), and so returns no auction    *)
(* that is active with endsAt at or before the current time.               *)
C4_ReadAfterDeadline ==
    [][ret'.op \in ReadOps =>
          /\ \A i \in Indices :
                Expired(auctions[i]) =>
                    IF LedgerOf(auctions[i].id) # <<>>
                    THEN /\ auctions'[i].status = "sold"
                         /\ \E b \in HighestBids(auctions[i].id) :
                               b.bidderId = auctions'[i].winnerId
                    ELSE /\ auctions'[i].status = "ended"
                         /\ auctions'[i].winnerId = None
          /\ \A k \in 1..Len(ret'.value) :
                /\ ~Expired(ret'.value[k])
                /\ ret'.value[k] \in Range(auctions')]_vars

\* a read at the deadline of seed auction 2 answers with that auction sold to
\* its top bidder (Jane S., 185.00) and with a created auction that ended
\* without bids
C4_Witness ==
    /\ ret.op = "getAllAuctions"
    /\ \E k \in 1..Len(ret.value) :
          /\ ret.value[k].id = 2
          /\ ret.value[k].endsAt = now
          /\ ret.value[k].status = "sold"
          /\ ret.value[k].winnerId = 100
    /\ \E k \in 1..Len(ret.value) :
          /\ ret.value[k].id >= FirstNewAuctionId
          /\ ret.value[k].status = "ended"
          /\ ret.value[k].winnerId = None

C6_NoSelfBid ==
    \A k \in 1..Len(bids) :
        \A i \in Indices :
            auctions[i].id = bids[k].auctionId =>
                auctions[i].sellerId # bids[k].bidderId

\* a seller's bid on their own active auction, high enough to be accepted
\* from anyone else, was rejected
C6_Witness ==
    /\ ret.op = "placeBid"
    /\ ~ret.ok
    /\ ret.error = "You cannot bid on your own auction"
    /\ \E i \in Indices :
          /\ auctions[i].id = ret.args[1]
          /\ auctions[i].sellerId = ret.args[2]
          /\ auctions[i].status = "active"
          /\ ret.args[3] >= auctions[i].currentPrice + MinIncrement

(* C7: the decision on a bid and the update of the auction are one step:  *)
(* of two bids on the same auction the later one was checked against the  *)
(* price the earlier one had set, so it exceeds the earlier amount by at  *)
(* least the minimum increment; two bids checked against the same pre-bid *)
(* currentPrice never both succeed.                                        *)
C7_NoTwoBidsOnOnePrice ==
    \A j \in 1..Len(bids) :
        \A k \in 1..(j - 1) :
            bids[k].auctionId = bids[j].auctionId =>
                bids[j].amount >= bids[k].amount + MinIncrement

\* a second bidder sent the amount the first bidder had just been accepted
\* with (both computed from the same pre-bid price) and was rejected
C7_Witness ==
    /\ ret.op = "placeBid"
    /\ ~ret.ok
    /\ ret.error = "Bid must be at least minBid"
    /\ Len(bids) > Len(SEED_BIDS(0))
    /\ bids[Len(bids)].auctionId = ret.args[1]
    /\ bids[Len(bids)].bidderId # ret.args[2]
    /\ bids[Len(bids)].amount = ret.args[3]
    /\ bids[Len(bids)].createdAt = now

(* C8: on every auction the amounts of the bids increase strictly in the  *)
(* order the bids were placed; each accepted bid exceeds the currentPrice *)
(* the auction had before it, and currentPrice never decreases.            *)
StrictlyIncreasingBids ==
    \A j \in 1..Len(bids) :
        \A k \in 1..(j - 1) :
            bids[k].auctionId = bids[j].auctionId =>
                bids[k].amount < bids[j].amount

C8_BidMonotonicity ==
    /\ []StrictlyIncreasingBids
    /\ [][/\ \A i \in Indices :
                auctions'[i].currentPrice >= auctions[i].currentPrice
          /\ (ret'.op = "placeBid" /\ ret'.ok) =>
                ret'.value[1].amount >
                    auctions[FindIndex(auctions, ret'.args[1])].currentPrice]_vars

\* two bids were placed, one after the other, on the same auction
C8_Witness ==
    /\ Len(bids) = Len(SEED_BIDS(0)) + 2
    /\ bids[Len(bids)].auctionId = bids[Len(bids) - 1].auctionId
    /\ bids[Len(bids)].amount > bids[Len(bids) - 1].amount

(* C9: the ledger is append-only: every step leaves the bids already in   *)
(* it unchanged and in place, and only a successful placeBid changes it,  *)
(* by adding exactly one bid.                                              *)
C9_AppendOnlyLedger ==
    [][/\ Len(bids') >= Len(bids)
       /\ \A k \in 1..Len(bids) : bids'[k] = bids[k]
       /\ bids' # bids =>
            /\ ret'.op = "placeBid"
            /\ ret'.ok
            /\ bids' = Append(bids, ret'.value[1])]_vars

\* a bidder who already had a bid on seed auction 2 placed another one, and
\* getBidsByAuction answered newest first with all four bids
C9_Witness ==
    /\ ret.op = "getBidsByAuction"
    /\ ret.args[1] = 2
    /\ Len(bids) = Len(SEED_BIDS(0)) + 1
    /\ Len(ret.value) = 4
    /\ ret.value[1] = bids[Len(bids)]
    /\ \E k \in 2..Len(ret.value) : ret.value[k].bidderId = ret.value[1].bidderId

(* C10: a placeBid that fails adds no bid to the ledger and leaves        *)
(* currentPrice and bidCount of every auction unchanged.                   *)
C10_FailedBidChangesNothing ==
    [][(ret'.op = "placeBid" /\ ~ret'.ok) =>
          /\ bids' = bids
          /\ nextBidId' = nextBidId
          /\ Len(auctions') = Len(auctions)
          /\ \A i \in Indices :
                /\ auctions'[i].currentPrice = auctions[i].currentPrice
                /\ auctions'[i].bidCount = auctions[i].bidCount]_vars

\* a bid above currentPrice but below currentPrice + 1 failed
C10_Witness ==
    /\ ret.op = "placeBid"
    /\ ~ret.ok
    /\ ret.error = "Bid must be at least minBid"
    /\ \E i \in Indices :
          /\ auctions[i].id = ret.args[1]
          /\ ret.args[3] > auctions[i].currentPrice
          /\ auctions[i].bidCount = Len(LedgerOf(auctions[i].id))

(* C11: cancelAuction fails and leaves every auction unchanged when the   *)
(* requester is not the seller of the auction, whatever its status, and   *)
(* when the status is not active; otherwise the requester is the seller   *)
(* of an active auction, the call succeeds and only sets that auction's   *)
(* status to cancelled.                                                    *)
C11_CancelAuction ==
    [][ret'.op = "cancelAuction" =>
          LET i == FindIndex(auctions, ret'.args[1])
              sellerId == ret'.args[2]
          IN  IF i = 0 THEN ~ret'.ok /\ auctions' = auctions
              ELSE IF auctions[i].sellerId # sellerId
                      \/ auctions[i].status # "active"
              THEN ~ret'.ok /\ auctions' = auctions
              ELSE /\ ret'.ok
                   /\ auctions' = [auctions EXCEPT ![i].status = "cancelled"]
                   /\ ret'.value[1] = auctions'[i]]_vars

\* the seller of seed auction 2 cancelled it, asked to cancel it again and
\* was refused
C11_Witness ==
    /\ ret.op = "cancelAuction"
    /\ ~ret.ok
    /\ ret.error = "Only active auctions can be cancelled"
    /\ ret.args = <<2, 998>>
    /\ auctions[2].status = "cancelled"
    /\ auctions[2].sellerId = 998
    /\ calls = 1

(* C12: in every reachable state an auction that carries a winner has     *)
(* status sold; an active, ended or cancelled auction has no winner.       *)
C12_WinnerOnlyWhenSold ==
    \A i \in Indices :
        (auctions[i].winnerId # None \/ auctions[i].winnerName # NoName) =>
            auctions[i].status = "sold"

C26_ExpiredWithBidsOnlySold ==
    [][\A i \in Indices :
          (Expired(auctions[i]) /\ LedgerOf(auctions[i].id) # <<>>) =>
              \/ auctions'[i] = auctions[i]
              \/ /\ auctions'[i].status = "sold"
                 /\ \E b \in HighestBids(auctions[i].id) :
                       b.bidderId = auctions'[i].winnerId]_vars

----------------------------------------------------------------------------
(* Vocabulary of the properties of the orders                              *)

RECURSIVE SumSeq(_)
SumSeq(s) == IF s = <<>> THEN 0 ELSE Head(s) + SumSeq(Tail(s))

\* sum of price_at_purchase x quantity over the items
LineTotal(items) ==
    SumSeq([k \in 1..Len(items) |->
               items[k].price_at_purchase * items[k].quantity])

\* 8.25% of a subtotal, rounded half up to the cent; amounts are in mills
TaxOn(subtotal) == ((((subtotal \div 10) * 825) + 5000) \div 10000) * 10

\* the committed items of an order
ItemsOf(id) == LET Of_order(r) == r.order_id = id IN SelectSeq(orderItemsTable, Of_order)

\* the quantity of a product that the committed order items add up to
Ordered(p) ==
    SumSeq([k \in 1..Len(orderItemsTable) |->
               IF orderItemsTable[k].product_id = p
               THEN orderItemsTable[k].quantity ELSE 0])

\* the quantity of a product that the items of a request body add up to
Asked(body, p) ==
    SumSeq([k \in 1..Len(body.items) |->
               IF body.items[k].productId = p
               THEN body.items[k].quantity ELSE 0])

\* timestamp t is not earlier than timestamp u, field by field
NotEarlier(t, u) ==
    \/ t = u
    \/ \E k \in 1..5 : t[k] > u[k] /\ \A j \in 1..(k - 1) : t[j] = u[j]

Post == "POST /api/orders"

Invalid(body) ==
    \/ "items" \notin DOMAIN body
    \/ body.items = <<>>
    \/ "shippingAddress" \notin DOMAIN body
    \/ body.shippingAddress = ""

(* C14: every order, seeded or created by POST /api/orders, has subtotal  *)
(* the sum of price_at_purchase x quantity of its items, tax 8.25% of the *)
(* subtotal rounded to the cent, fees 4.99 and total subtotal + tax +     *)
(* fees; seed order 1 ({79.99 x 1}, {29.99 x 2}) has 139.97, 11.55, 4.99  *)
(* and 156.51.                                                             *)
C14_OrderTotals ==
    /\ \A k \in 1..Len(orders) :
          LET o == orders[k]
          IN  /\ o.subtotal = LineTotal(o.items)
              /\ o.tax = TaxOn(o.subtotal)
              /\ o.fees = 4990
              /\ o.total = o.subtotal + o.tax + o.fees
    /\ orders[1].subtotal = 139970
    /\ orders[1].tax = 11550
    /\ orders[1].total = 156510
    /\ \A k \in 1..Len(ordersTable) :
          LET subtotal == LineTotal(ItemsOf(ordersTable[k].id))
          IN  ordersTable[k].total = subtotal + TaxOn(subtotal) + 4990

(* C15: POST /api/orders is all-or-nothing.  The tables products and      *)
(* order_items change only in the step that answers 201, which adds the   *)
(* order, one item per item of the body and takes exactly the quantities  *)
(* asked from the stock; a step that answers with an error leaves every   *)
(* table as it was, and a handler that has ended holds no uncommitted     *)
(* write.  So every committed item belongs to a committed order and the   *)
(* stock taken is the stock of the committed items.                        *)
C15_AllOrNothing ==
    /\ [](/\ \A k \in 1..Len(orderItemsTable) :
                FindIndex(ordersTable, orderItemsTable[k].order_id) # 0
          /\ \A p \in DOMAIN productsTable :
                productsTable[p] = SeedStock[p] - Ordered(p)
          /\ \A c \in Conns : handlers[c].pc = "idle" => tx[c] = NoTx)
    /\ [][IF res'.op = Post /\ res'.status = 201
          THEN LET body == res'.args
                   order == res'.rows[1]
               IN  /\ ordersTable' = Append(ordersTable, order)
                   /\ order.user_id = res'.user.id
                   /\ Len(orderItemsTable') = Len(orderItemsTable) + Len(body.items)
                   /\ \A k \in 1..Len(orderItemsTable) :
                         orderItemsTable'[k] = orderItemsTable[k]
                   /\ \A k \in 1..Len(body.items) :
                         LET row == orderItemsTable'[Len(orderItemsTable) + k]
                         IN  /\ row.order_id = order.id
                             /\ row.product_id = body.items[k].productId
                             /\ row.quantity = body.items[k].quantity
                             /\ row.price_at_purchase = body.items[k].price
                   /\ \A p \in DOMAIN productsTable :
                         productsTable'[p] = productsTable[p] - Asked(body, p)
          ELSE /\ orderItemsTable' = orderItemsTable
               /\ productsTable' = productsTable
               /\ Len(ordersTable') = Len(ordersTable)
               /\ \A k \in 1..Len(ordersTable) :
                     ordersTable'[k].id = ordersTable[k].id]_allVars

\* the order with a product that does not exist was answered 500 after its
\* INSERT into orders had drawn id 1: no row and no stock movement is left
C15_Witness ==
    /\ res.op = Post
    /\ res.status = 500
    /\ \E k \in 1..Len(res.args.items) :
          res.args.items[k].productId \notin DOMAIN productsTable
    /\ ordersIdSeq = 2
    /\ ordersTable = <<>>
    /\ orderItemsTable = <<>>
    /\ productsTable = SeedStock
    /\ pool = {}

(* C16: POST /api/orders with no item list, an empty item list or no      *)
(* shipping address answers 400 and changes nothing: no order, no item,   *)
(* no stock, no id drawn, no transaction opened; the client taken from    *)
(* the pool for the request is released, and in every state the clients   *)
(* checked out are those of the handlers still running.                    *)
C16_InvalidOrderRejected ==
    /\ [](pool = {c \in Conns : handlers[c].pc # "idle"})
    /\ [][(res'.op = Post /\ Invalid(res'.args)) =>
              /\ res'.status = 400
              /\ res'.rows = <<>>
              /\ UNCHANGED <<productsTable, ordersTable, orderItemsTable,
                             ordersIdSeq, clock, tx, handlers, pool>>]_allVars

\* a request without item list was answered 400 while the handler of another
\* order was in flight: only that handler's client is checked out
C16_Witness ==
    /\ res.op = Post
    /\ res.status = 400
    /\ "items" \notin DOMAIN res.args
    /\ handlers[1].pc = "update_stock"
    /\ handlers[2].pc = "idle"
    /\ pool = {1}

(* C17: the stock of every product is a non-negative integer in every     *)
(* reachable state.                                                        *)
C17_StockNonNegative ==
    \A p \in DOMAIN productsTable :
        productsTable[p] \in Nat

(* C18: a status update with a status outside pending, processing,        *)
(* shipped, delivered, cancelled answers 400 and leaves the orders as     *)
(* they were; for an id of no order it fails with not-found; otherwise it *)
(* writes the status whatever the current one is and changes nothing      *)
(* else.  Every order, in the table and in the OrderService, has one of   *)
(* the five statuses in every reachable state.                             *)
C18_UpdateStatus ==
    /\ [](/\ \A k \in 1..Len(ordersTable) : ordersTable[k].status \in OrderStatuses
          /\ \A k \in 1..Len(orders) : orders[k].status \in OrderStatuses)
    /\ [][/\ (res'.op = "PUT /api/orders/:id/status" /\ res'.user.role = "admin") =>
                LET i == FindIndex(ordersTable, res'.args[1])
                    status == res'.args[2]
                IN  IF status \notin {"pending", "processing", "shipped",
                                      "delivered", "cancelled"}
                    THEN res'.status = 400 /\ ordersTable' = ordersTable
                    ELSE IF i = 0
                    THEN res'.status = 404 /\ ordersTable' = ordersTable
                    ELSE /\ res'.status = 200
                         /\ ordersTable' = [ordersTable EXCEPT ![i].status = status]
                         /\ res'.rows = <<ordersTable'[i]>>
          /\ ret'.op = "updateOrderStatus" =>
                LET i == FindIndex(orders, ret'.args[1])
                IN  IF i = 0
                    THEN ~ret'.ok /\ ret'.error = "Order not found" /\ orders' = orders
                    ELSE /\ ret'.ok
                         /\ orders' = [orders EXCEPT ![i].status = ret'.args[2]]
                         /\ ret'.value = <<orders'[i]>>]_allVars

\* the admin had set order 1 to shipped, then sent "bogus" and was answered
\* 400: the order is still shipped
C18_Witness ==
    /\ res.op = "PUT /api/orders/:id/status"
    /\ res.args = <<1, "bogus">>
    /\ res.status = 400
    /\ Len(ordersTable) >= 1
    /\ ordersTable[1].id = 1
    /\ ordersTable[1].status = "shipped"

(* C19: GET /api/orders/:id answers 404 when no order has the id, 403     *)
(* when the caller is neither the owner of the order nor an admin, and    *)
(* only otherwise 200 with the order and its items; no response hands an  *)
(* order to a caller who is neither its owner nor an admin.  getOrderById *)
(* of the OrderService fails with not-found for an id of no order.         *)
C19_GetOrder ==
    [][/\ res'.op = "GET /api/orders/:id" =>
             LET i == FindIndex(ordersTable, res'.args[1])
                 caller == res'.user
             IN  IF i = 0 THEN res'.status = 404 /\ res'.rows = <<>>
                 ELSE IF caller.role # "admin" /\ ordersTable[i].user_id # caller.id
                 THEN res'.status = 403 /\ res'.rows = <<>>
                 ELSE /\ res'.status = 200
                      /\ res'.rows[1].order = ordersTable[i]
                      /\ res'.rows[1].items = ItemsOf(ordersTable[i].id)
       /\ \A k \in 1..Len(res'.rows) :
             (res'.op = "GET /api/orders/:id" /\ res'.user.role # "admin") =>
                 res'.rows[k].order.user_id = res'.user.id
       /\ ret'.op = "getOrderById" =>
             IF \E k \in 1..Len(orders) : orders[k].id = ret'.args[1]
             THEN ret'.ok /\ ret'.value[1] \in Range(orders)
                  /\ ret'.value[1].id = ret'.args[1]
             ELSE ~ret'.ok /\ ret'.error = "Order not found"]_allVars

\* user 3 asked for order 1, which user 2 had placed, and was answered 403
C19_Witness ==
    /\ res.op = "GET /api/orders/:id"
    /\ res.user = ReqUser(3)
    /\ res.status = 403
    /\ \E k \in 1..Len(ordersTable) :
          /\ ordersTable[k].id = res.args[1]
          /\ ordersTable[k].user_id = 2
          /\ ItemsOf(ordersTable[k].id) # <<>>

(* C20: GET /api/orders answers an admin with every order and any other   *)
(* caller with exactly the orders the caller owns, newest first;          *)
(* getAllOrders and getOrdersByUserId of the OrderService answer with     *)
(* every order and with exactly the orders of the user, newest first.      *)
C20_ListOrders ==
    [][/\ res'.op = "GET /api/orders" =>
             LET visible == {o \in Range(ordersTable) :
                                res'.user.role = "admin" \/ o.user_id = res'.user.id}
             IN  /\ res'.status = 200
                 /\ Range(res'.rows) = visible
                 /\ Len(res'.rows) = Cardinality(visible)
                 /\ \A j \in 1..Len(res'.rows) : \A k \in 1..(j - 1) :
                       res'.rows[k].created_at >= res'.rows[j].created_at
       /\ ret'.op \in {"getAllOrders", "getOrdersByUserId"} =>
             LET visible == {o \in Range(orders) :
                                ret'.op = "getAllOrders" \/ o.user_id = ret'.args[1]}
             IN  /\ ret'.ok
                 /\ Range(ret'.value) = visible
                 /\ Len(ret'.value) = Cardinality(visible)
                 /\ \A j \in 1..Len(ret'.value) : \A k \in 1..(j - 1) :
                       NotEarlier(ret'.value[k].created_at,
                                  ret'.value[j].created_at)]_allVars

\* two users each placed an order; the admin is answered with both, the
\* later one first, while the table holds them in the order they committed
C20_Witness ==
    /\ res.op = "GET /api/orders"
    /\ res.user.role = "admin"
    /\ Len(res.rows) = 2
    /\ res.rows[1].user_id # res.rows[2].user_id
    /\ res.rows[1].created_at > res.rows[2].created_at
    /\ res.rows[1] = ordersTable[2]
    /\ res.rows[2] = ordersTable[1]

(* C21: an order is immutable once created except for its status.  No     *)
(* step removes or reorders an order or a committed order item, and every *)
(* step leaves each order as it was but for its status: id, order number, *)
(* owner, subtotal, tax, fees, total, shipping address, creation time and *)
(* items with their price_at_purchase.  A status update changes the       *)
(* status of the targeted order only, and a step that changes the         *)
(* catalogue (a new price of a product) changes no order and no item.      *)
C21_OrderImmutable ==
    [][/\ Len(orders') = Len(orders)
       /\ \A k \in 1..Len(orders) :
             orders'[k] = [orders[k] EXCEPT !.status = orders'[k].status]
       /\ \A k \in 1..Len(orders) :
             orders'[k].status # orders[k].status =>
                 /\ ret'.op = "updateOrderStatus"
                 /\ orders[k].id = ret'.args[1]
                 /\ orders'[k].status = ret'.args[2]
       /\ Len(ordersTable') >= Len(ordersTable)
       /\ \A k \in 1..Len(ordersTable) :
             ordersTable'[k] =
                 [ordersTable[k] EXCEPT !.status = ordersTable'[k].status]
       /\ \A k \in 1..Len(ordersTable) :
             ordersTable'[k].status # ordersTable[k].status =>
                 /\ res'.op = "PUT /api/orders/:id/status"
                 /\ ordersTable[k].id = res'.args[1]
                 /\ ordersTable'[k].status = res'.args[2]
       /\ Len(orderItemsTable') >= Len(orderItemsTable)
       /\ \A k \in 1..Len(orderItemsTable) :
             orderItemsTable'[k] = orderItemsTable[k]
       /\ products' # products =>
             /\ orders' = orders
             /\ ordersTable' = ordersTable
             /\ orderItemsTable' = orderItemsTable]_allVars

\* after the price of product 1 went from 79.99 to 84.99, seed order 1 was
\* cancelled: it still holds the item at 79.99 and its total of 156.51; the
\* order placed through the API was set to shipped and keeps its item at
\* 79.99 too
C21_Witness ==
    /\ ret.op = "updateOrderStatus"
    /\ ret.ok
    /\ orders[1].status = "cancelled"
    /\ orders[1].items[1].product_id = 1
    /\ orders[1].items[1].price_at_purchase = 79990
    /\ orders[1].total = 156510
    /\ products[1].id = 1
    /\ products[1].price = 84990
    /\ Len(ordersTable) >= 1
    /\ ordersTable[1].status = "shipped"
    /\ Len(orderItemsTable) >= 1
    /\ orderItemsTable[1].product_id = 1
    /\ orderItemsTable[1].price_at_purchase = 79990

\* the orders of an array that are not cancelled
NotCancelled(arr) == {k \in 1..Len(arr) : arr[k].status # "cancelled"}

\* the sum of total over the orders of an array that are not cancelled
Revenue(arr) ==
    SumSeq([k \in 1..Len(arr) |->
               IF k \in NotCancelled(arr) THEN arr[k].total ELSE 0])

(* C22: the revenue and the order count are both taken over the orders    *)
(* that are not cancelled: getTotalRevenue answers the sum of their       *)
(* totals and getOrderCount their number, and so do totalRevenue and      *)
(* totalOrders of GET /api/users/stats/overview over the orders table.     *)
C22_Aggregates ==
    [][/\ ret'.op = "getTotalRevenue" => ret'.value[1] = Revenue(orders)
       /\ ret'.op = "getOrderCount" =>
             ret'.value[1] = Cardinality(NotCancelled(orders))
       /\ (res'.op = "GET /api/users/stats/overview" /\ res'.status = 200) =>
             /\ res'.rows[1].totalRevenue = Revenue(ordersTable)
             /\ res'.rows[1].totalOrders =
                    Cardinality(NotCancelled(ordersTable))]_allVars

----------------------------------------------------------------------------
(* Vocabulary of the properties of the reviews                             *)

\* the places in an array of the approved reviews of a product
ApprovedAt(arr, productId) ==
    {k \in 1..Len(arr) :
        arr[k].productId = productId /\ arr[k].status = "approved"}

\* the sum of the ratings of the approved reviews of a product
ApprovedStars(arr, productId) ==
    SumSeq([k \in 1..Len(arr) |->
               IF k \in ApprovedAt(arr, productId) THEN arr[k].rating ELSE 0])

\* v tenths is sum / n rounded to one decimal, a half-way case upwards
IsMeanToTenth(v, sum, n) ==
    /\ 2 * n * v <= 20 * sum + n
    /\ 20 * sum + n < 2 * n * (v + 1)

\* v tenths is the average rating of the approved reviews of a product
IsAverageOf(v, arr, productId) ==
    LET n == Cardinality(ApprovedAt(arr, productId))
    IN  IF n = 0 THEN v = 0
        ELSE IsMeanToTenth(v, ApprovedStars(arr, productId), n)

(* C23: getAverageRating answers the mean of the ratings of exactly the   *)
(* approved reviews of the product, rounded to one decimal, and 0 when    *)
(* the product has no approved review; one approved review of 5 stars     *)
(* alone gives 5.0.  getReviewsByProduct answers exactly the approved     *)
(* reviews of the product.  Pending and rejected reviews, and the helpful *)
(* counts, play no part in either.                                         *)
C23_AverageRating ==
    [][/\ ret'.op = "getAverageRating" =>
             LET productId == ret'.args[1]
                 at == ApprovedAt(reviews, productId)
             IN  /\ IsAverageOf(ret'.value[1], reviews, productId)
                 /\ at = {} => ret'.value[1] = 0
                 /\ (\E k \in at : at = {k} /\ reviews[k].rating = 5) =>
                        ret'.value[1] = 50
       /\ ret'.op = "getReviewsByProduct" =>
             LET at == ApprovedAt(reviews, ret'.args[1])
             IN  /\ Range(ret'.value) = {reviews[k] : k \in at}
                 /\ Len(ret'.value) = Cardinality(at)]_allVars

\* product 2 has four approved reviews of 5, 4, 2 and 2 stars, the seed
\* review that was pending and a submitted one: 3.25, which is answered as
\* 3.3; the seed review has been marked helpful
C23_Witness ==
    /\ ret.op = "getAverageRating"
    /\ ret.args = <<2>>
    /\ ret.value = <<33>>
    /\ Cardinality(ApprovedAt(reviews, 2)) = 4
    /\ ApprovedStars(reviews, 2) = 13
    /\ \E k \in 1..Len(reviews) :
          /\ reviews[k].id = 12
          /\ reviews[k].status = "approved"
          /\ reviews[k].helpful = 1

----------------------------------------------------------------------------
(* Vocabulary of the properties of the catalogue                           *)

\* the reads of the storefront that answer with a list of products
StorefrontLists == {"getAllProducts", "getProductById", "getProductsByCategory",
                    "searchProducts", "getFeaturedProducts"}

(* C25: no storefront read of the catalogue (getProducts, getAllProducts, *)
(* getProductById, getProductsByCategory, searchProducts, getCategories,  *)
(* getFeaturedProducts) answers with a product whose disabled flag is     *)
(* true, nor with a category that only disabled products have;            *)
(* getAllProductsAdmin answers with every product.                         *)
C25_DisabledHidden ==
    [][/\ ret'.op \in StorefrontLists =>
             \A k \in 1..Len(ret'.value) : ~ret'.value[k].disabled
       /\ ret'.op = "getProducts" =>
             \A k \in 1..Len(ret'.value[1].products) :
                 ~ret'.value[1].products[k].disabled
       /\ ret'.op = "getCategories" =>
             \A k \in 1..Len(ret'.value) :
                 \E j \in 1..Len(products) :
                     /\ products[j].category = ret'.value[k]
                     /\ ~products[j].disabled
       /\ ret'.op = "getAllProductsAdmin" => ret'.value = products]_allVars

----------------------------------------------------------------------------
(* Properties of the session                                               *)

\* C28: the response of the startup session restore never overrides a
\* login, register or logout completed after the restore was sent: in every
\* state a non-null currentUser implies that a token is stored, and a
\* restore that resumes while the stored token is no longer the one it was
\* sent with (a login or register has stored another, a logout has removed
\* it) changes neither the stored token nor currentUser.
C28_RestoreNeverOverrides ==
    /\ [](currentUser # null => token # NoToken)
    /\ [][(/\ ret'.op = "loadUserFromToken"
           /\ ret.op = "none"
           /\ ret'.args[1] # token)
              => (token' = token /\ currentUser' = currentUser)]_allVars

----------------------------------------------------------------------------
(* Vocabulary of the properties of the notifications                       *)

ShownIds == {notifications[k].id : k \in 1..Len(notifications)}

IsShow == nextNotificationId' = nextNotificationId + 1

TimersFired == timers \ timers'

----------------------------------------------------------------------------
(* Properties of the notifications                                         *)

\* C29: the active list holds at most MAX_VISIBLE notifications, with
\* pairwise distinct ids in the order they were shown (the ids grow along
\* the list); a show appends the new notification, and when the list was
\* full it drops exactly the oldest entry.
C29_AtMostFiveInOrder ==
    /\ [](/\ Len(notifications) <= MAX_VISIBLE
          /\ \A j, k \in 1..Len(notifications) :
                 j < k => notifications[j].id < notifications[k].id)
    /\ [][IsShow =>
            /\ notifications' # <<>>
            /\ notifications'[Len(notifications')].id = nextNotificationId
            /\ SubSeq(notifications', 1, Len(notifications') - 1) =
                   IF Len(notifications) < MAX_VISIBLE
                   THEN notifications
                   ELSE Tail(notifications)]_allVars

\* six notifications have been shown and the list holds the last five
C29_Witness ==
    /\ nextNotificationId = FirstNotificationId + MAX_VISIBLE + 1
    /\ ShownIds = (FirstNotificationId + 1)..(FirstNotificationId + MAX_VISIBLE)
    /\ timers = {}

\* C30: every notification shown with a duration greater than 0 (its timer
\* is pending) eventually leaves the active list when the timers are run
\* fairly; and a timer that fires for an id that is no longer in the list
\* leaves the list as it is.
C30_TimedNotificationsLeave ==
    /\ \A id \in NotificationIds :
           (id \in timers /\ id \in ShownIds) ~> (id \notin ShownIds)
    /\ [][\A id \in TimersFired :
              id \notin ShownIds => notifications' = notifications]_allVars

\* a notification shown with a duration has left the list while its timer
\* is still pending (the dismiss of that timer will not find it), another
\* has left it and has no timer pending, and a third is shown with its timer
C30_Witness ==
    /\ Len(notifications) = MAX_VISIBLE - 1
    /\ \E id \in timers : id \notin ShownIds
    /\ \E id \in FirstNotificationId..(nextNotificationId - 1) :
           id \notin timers /\ id \notin ShownIds
    /\ \E k \in 1..Len(notifications) :
           notifications[k].type = "success" /\ notifications[k].id \in timers

====
